---- MODULE Spec2Model ----
(***************************************************************************)
(* Model of the wireframe segment pipeline of deck-datavis                 *)
(* (meshToColoredSegments with the pooled colour buffers, and the colour   *)
(* utilities it calls).                                                    *)
(*                                                                         *)
(* Numbers.  The program computes with IEEE-754 binary floating point.     *)
(* The model keeps the structure of that arithmetic at a reduced width: a  *)
(* number is an integer count of units of 2^-FracBits, every arithmetic    *)
(* operation computes the exact result and rounds it to Precision          *)
(* significant bits, ties to even (results below 2^Precision units are     *)
(* exact multiples of the unit, as subnormals are).  Comparisons are       *)
(* exact.  Colour channels and indices are plain integers.                 *)
(***************************************************************************)
EXTENDS Integers, Sequences, FiniteSets, TLC

----------------------------------------------------------------------------
(* Bounds of the model *)

Precision == 12
FracBits == 13
MaxRows == 2
MaxCols == 2
MaxCalls == 3
HueSteps == 12
LevelSteps == 4

----------------------------------------------------------------------------
(* Reduced-width floating point *)

Unit == 2 ^ FracBits

Abs(x) == IF x < 0 THEN 0 - x ELSE x

Top == 2 ^ Precision

\* the spacing of the representable numbers around magnitude q:
\* the least power of two u with q \div u < 2^Precision
Ulp(q) ==
  2 ^ (CHOOSE j \in 0..30 : q \div (2 ^ j) < Top
                            /\ (j = 0 \/ q \div (2 ^ (j - 1)) >= Top))

\* q or q + 1, whichever is nearer to q + r/d; a tie goes to the even one
NearestEven(q, r, d) ==
  IF (2 * r > d) \/ (2 * r = d /\ q % 2 = 1) THEN q + 1 ELSE q

\* n/d0 rounded to a multiple of scale (n >= 0, d0 > 0)
RoundToGrid(n, d0, scale) ==
  scale * NearestEven(n \div (d0 * scale), n % (d0 * scale), d0 * scale)

\* n/d0 rounded to the nearest representable number (n >= 0, d0 > 0)
RoundMagnitude(n, d0) == RoundToGrid(n, d0, Ulp(n \div d0))

\* 1 when num/den is not negative, else -1
SignOf(num, den) == IF (num < 0) = (den < 0) THEN 1 ELSE 0 - 1

\* num/den (in units), rounded to nearest representable, ties to even
Rnd(num, den) == SignOf(num, den) * RoundMagnitude(Abs(num), Abs(den))

FAdd(a, b) == Rnd(a + b, 1)
FSub(a, b) == Rnd(a - b, 1)
\* the exponent of the largest power of two, at most 2^limit, dividing a
TwoExp(a, limit) ==
  CHOOSE j \in 0..limit : a % (2 ^ j) = 0 /\ (j = limit \/ a % (2 ^ (j + 1)) # 0)

\* a * b / 2^k rounded, where 2^j divides b and j <= k
MulCancelled(a, b, k, j) == Rnd(a * (b \div (2 ^ j)), 2 ^ (k - j))

\* a * b / 2^k rounded, where 2^j divides a and j <= k;
\* factors of two are cancelled before multiplying
MulDown(a, b, k, j) == MulCancelled(a \div (2 ^ j), b, k - j, TwoExp(b, k - j))

\* a * 2^k / b rounded, where 2^j divides b and j <= k
DivUp(a, b, k, j) == Rnd(a * (2 ^ (k - j)), b \div (2 ^ j))

FMul(a, b) == MulDown(a, b, FracBits, TwoExp(a, FracBits))
FDiv(a, b) == DivUp(a, b, FracBits, TwoExp(b, FracBits))

\* the number nearest to the decimal literal n/d
Lit(n, d) == Rnd(n * Unit, d)

\* Math.round: nearest integer, halves towards +infinity
MathRound(a) == (2 * a + Unit) \div (2 * Unit)

----------------------------------------------------------------------------
(* Constants of the program *)

GRADIENT_SUBDIVISIONS == 8

DEFAULT_GRADIENTS ==
  [xBelow |-> [high |-> <<Lit(220, 1), Lit(60, 100), Lit(55, 100), 255>>,
               low  |-> <<Lit(220, 1), Lit(70, 100), Lit(25, 100), 255>>],
   xAbove |-> [high |-> <<Lit(200, 1), Lit(40, 100), Lit(75, 100), 255>>,
               low  |-> <<Lit(200, 1), Lit(50, 100), Lit(45, 100), 255>>],
   yBelow |-> [high |-> <<Lit(10, 1), Lit(75, 100), Lit(50, 100), 255>>,
               low  |-> <<Lit(0, 1), Lit(70, 100), Lit(30, 100), 255>>],
   yAbove |-> [high |-> <<Lit(40, 1), Lit(70, 100), Lit(70, 100), 255>>,
               low  |-> <<Lit(30, 1), Lit(80, 100), Lit(45, 100), 255>>]]

\* the two gradient configurations the model chooses from: the defaults, and
\* an edited one whose four gradients are pairwise different as well
EDITED_GRADIENTS ==
  [xBelow |-> [high |-> <<Lit(120, 1), Lit(50, 100), Lit(60, 100), 255>>,
               low  |-> <<Lit(100, 1), Lit(0, 1), Lit(20, 100), 255>>],
   xAbove |-> [high |-> <<Lit(300, 1), Lit(1, 1), Lit(50, 100), 255>>,
               low  |-> <<Lit(280, 1), Lit(90, 100), Lit(40, 100), 255>>],
   yBelow |-> [high |-> <<Lit(350, 1), Lit(30, 100), Lit(80, 100), 255>>,
               low  |-> <<Lit(340, 1), Lit(20, 100), Lit(10, 100), 255>>],
   yAbove |-> [high |-> <<Lit(60, 1), Lit(65, 100), Lit(35, 100), 128>>,
               low  |-> <<Lit(50, 1), Lit(85, 100), Lit(15, 100), 128>>]]

GradientChoices == {DEFAULT_GRADIENTS, EDITED_GRADIENTS}

\* cutoff percentages the slider is moved to
PercentChoices == {0, 30, 100}

DefaultZCutoffPercent == 50

\* The mesh.  generateMeshData samples a fixed height function on a square
\* grid; the model samples each of a few height functions on every grid of
\* up to MaxRows x MaxCols vertices.  Three heights occur in most of them,
\* and two more (0.9 and 0.07) in the scarp.
ZLow == Lit(0 - 3, 10)

ZMid == Lit(12, 10)

ZHigh == Lit(27, 10)

ZScarpTop == Lit(9, 10)

ZScarpFoot == Lit(7, 100)

MeshShapes == {"flat", "checker", "slope", "ridge", "terrace", "scarp"}

Even(n) == n % 2 = 0

\* height at row j, column i (0-based)
HeightAt(shape, j, i) ==
  CASE shape = "flat" -> ZMid
    [] shape = "checker" -> IF Even(i + j) THEN ZLow ELSE ZHigh
    [] shape = "slope" -> IF i + j = 0 THEN ZLow ELSE IF i + j = 1 THEN ZMid ELSE ZHigh
    [] shape = "ridge" -> IF Even(i) THEN ZHigh ELSE ZLow
    [] shape = "terrace" -> IF Even(j) THEN ZLow ELSE ZMid
    [] shape = "scarp" -> IF Even(i + j) THEN ZScarpTop ELSE ZScarpFoot

----------------------------------------------------------------------------
(* Sequencing *)

\* F applied to the value of v.  Statements of the program run one after the
\* other; binding the value (rather than passing the expression on) keeps the
\* evaluation of a long run of statements from nesting.
Then(v, F(_)) == CHOOSE r \in {F(x) : x \in {v}} : TRUE

----------------------------------------------------------------------------
(* Colour utilities *)

OneSixth == Lit(1, 6)

OneThird == Lit(1, 3)

OneHalf == Lit(1, 2)

TwoThirds == Lit(2, 3)

\* variant: the hue offset is used as it comes
wrapHueNone(t) == t

\* the hue offset brought back into 0..1
wrapHue(t) ==
  IF t < 0 THEN FAdd(t, Unit)
  ELSE IF t > Unit THEN FSub(t, Unit)
  ELSE t

computeRGBComponent(p, q, t0) ==
  Then(wrapHue(t0), LAMBDA t :
    IF t < OneSixth
      THEN FAdd(p, FMul(FMul(FSub(q, p), 6 * Unit), t))
    ELSE IF t < OneHalf
      THEN q
    ELSE IF t < TwoThirds
      THEN FAdd(p, FMul(FMul(FSub(q, p), FSub(TwoThirds, t)), 6 * Unit))
    ELSE p)

\* one colour channel, 0..255, of the hue offset t
rgbChannel(p, q, t) == MathRound(FMul(computeRGBComponent(p, q, t), 255 * Unit))

\* q of the conversion: the larger of the colour's RGB components
chromaMax(s, l) ==
  IF l < OneHalf
    THEN FMul(l, FAdd(Unit, s))
    ELSE FSub(FAdd(l, s), FMul(l, s))

\* variant: on the grey axis only the red slot is written
hslToRgbBuffGreyRedOnly(hslColorIn, rgbColorOut) ==
  IF hslColorIn[2] = 0
    THEN [rgbColorOut EXCEPT ![4] = hslColorIn[4],
                             ![1] = MathRound(FMul(hslColorIn[3], 255 * Unit))]
    ELSE Then(FDiv(hslColorIn[1], 360 * Unit), LAMBDA normalizedHue :
         Then(chromaMax(hslColorIn[2], hslColorIn[3]), LAMBDA q :
         Then(FSub(FMul(2 * Unit, hslColorIn[3]), q), LAMBDA p :
           [rgbColorOut EXCEPT
              ![4] = hslColorIn[4],
              ![1] = rgbChannel(p, q, FAdd(normalizedHue, OneThird)),
              ![2] = rgbChannel(p, q, normalizedHue),
              ![3] = rgbChannel(p, q, FSub(normalizedHue, OneThird))])))

\* variant: the alpha slot is written only when the colour is translucent
hslToRgbBuffAlphaIfTranslucent(hslColorIn, rgbColorOut) ==
  LET alpha == IF hslColorIn[4] # 255 THEN hslColorIn[4] ELSE rgbColorOut[4]
  IN IF hslColorIn[2] = 0
       THEN Then(MathRound(FMul(hslColorIn[3], 255 * Unit)), LAMBDA grey :
              [rgbColorOut EXCEPT ![4] = alpha,
                                  ![1] = grey, ![2] = grey, ![3] = grey])
       ELSE Then(FDiv(hslColorIn[1], 360 * Unit), LAMBDA normalizedHue :
            Then(chromaMax(hslColorIn[2], hslColorIn[3]), LAMBDA q :
            Then(FSub(FMul(2 * Unit, hslColorIn[3]), q), LAMBDA p :
              [rgbColorOut EXCEPT
                 ![4] = alpha,
                 ![1] = rgbChannel(p, q, FAdd(normalizedHue, OneThird)),
                 ![2] = rgbChannel(p, q, normalizedHue),
                 ![3] = rgbChannel(p, q, FSub(normalizedHue, OneThird))])))

\* writes into rgbColorOut and returns it: the value is the buffer's new content
hslToRgbBuff(hslColorIn, rgbColorOut) ==
  IF hslColorIn[2] = 0
    THEN Then(MathRound(FMul(hslColorIn[3], 255 * Unit)), LAMBDA grey :
           [rgbColorOut EXCEPT ![4] = hslColorIn[4],
                               ![1] = grey, ![2] = grey, ![3] = grey])
    ELSE Then(FDiv(hslColorIn[1], 360 * Unit), LAMBDA normalizedHue :
         Then(chromaMax(hslColorIn[2], hslColorIn[3]), LAMBDA q :
         Then(FSub(FMul(2 * Unit, hslColorIn[3]), q), LAMBDA p :
           [rgbColorOut EXCEPT
              ![4] = hslColorIn[4],
              ![1] = rgbChannel(p, q, FAdd(normalizedHue, OneThird)),
              ![2] = rgbChannel(p, q, normalizedHue),
              ![3] = rgbChannel(p, q, FSub(normalizedHue, OneThird))])))

lerpHsl(a, b, t) ==
  << FAdd(a[1], FMul(FSub(b[1], a[1]), t)),
     FAdd(a[2], FMul(FSub(b[2], a[2]), t)),
     FAdd(a[3], FMul(FSub(b[3], a[3]), t)),
     a[4] >>

lerp3(a, b, t) ==
  << FAdd(a[1], FMul(FSub(b[1], a[1]), t)),
     FAdd(a[2], FMul(FSub(b[2], a[2]), t)),
     FAdd(a[3], FMul(FSub(b[3], a[3]), t)) >>

----------------------------------------------------------------------------
(* State *)

VARIABLES
  X, Y, Z,          \* the mesh: sequences of rows, (X[j][i], Y[j][i], Z[j][i])
  colorPool,        \* module-level pool of rgb buffers
  colorPoolIndex,   \* module-level bump index into the pool
  calls,            \* the invocations so far: inputs, returned array, and
                    \* what the array's segments read at the time of return
  edgeLog,          \* the vertex pairs handed to processSegment by the
                    \* latest invocation, in order
  nextObject,       \* allocation counter: identity of the next new array
  zCutoffPercent,   \* App state: the cutoff as a percentage of the Z range
  gradients,        \* App state: the four gradients
  hoverInfo,        \* App state: pointer position and object hovered, or null
  pinnedInfo        \* App state: pointer position and object pinned, or null

vars == <<X, Y, Z, colorPool, colorPoolIndex, calls, edgeLog, nextObject,
          zCutoffPercent, gradients, hoverInfo, pinnedInfo>>

\* null, where the state holds a pointer position with an object
NoInfo == [x |-> 0, y |-> 0, object |-> [position |-> << >>]]

----------------------------------------------------------------------------
(* The colour pool *)

\* variant: the pool is emptied at the start of each call
resetColorPoolClears(run) == [run EXCEPT !.colorPool = << >>, !.colorPoolIndex = 0]

\* variant: the pool index is left where the previous call stopped
resetColorPoolForgotten(run) == run

resetColorPool(run) == [run EXCEPT !.colorPoolIndex = 0]

\* returns the run with the pool grown if needed and the index advanced,
\* together with the slot (0-based) of the buffer handed out
\* variant: a new buffer is pushed on every acquire
acquireColorBufferAlwaysPush(run) ==
  [run |-> [run EXCEPT !.colorPool = Append(run.colorPool, <<0, 0, 0, 255>>),
                       !.colorPoolIndex = run.colorPoolIndex + 1],
   slot |-> run.colorPoolIndex]

\* variant: the index is not advanced, every acquire hands out the same slot
acquireColorBufferNoAdvance(run) ==
  LET grown == IF run.colorPoolIndex >= Len(run.colorPool)
                 THEN Append(run.colorPool, <<0, 0, 0, 255>>)
                 ELSE run.colorPool
  IN [run |-> [run EXCEPT !.colorPool = grown],
      slot |-> run.colorPoolIndex]

acquireColorBuffer(run) ==
  LET grown == IF run.colorPoolIndex >= Len(run.colorPool)
                 THEN Append(run.colorPool, <<0, 0, 0, 255>>)
                 ELSE run.colorPool
  IN [run |-> [run EXCEPT !.colorPool = grown,
                          !.colorPoolIndex = run.colorPoolIndex + 1],
      slot |-> run.colorPoolIndex]

----------------------------------------------------------------------------
(* meshToColoredSegments *)

\* The inputs of one invocation: in |-> [X, Y, Z, zCutoff, zMin, zMax, gradients]

\* variant: a zero-width range is given the low end of the gradient
getGradientTLowWhenFlat(z, in) ==
  Then(FSub(in.zMax, in.zMin), LAMBDA zRange :
    IF zRange > 0 THEN FDiv(FSub(z, in.zMin), zRange) ELSE 0)

getGradientT(z, in) ==
  Then(FSub(in.zMax, in.zMin), LAMBDA zRange :
    IF zRange > 0 THEN FDiv(FSub(z, in.zMin), zRange) ELSE OneHalf)

getGradientColor(run, z, gradient, in) ==
  Then(lerpHsl(gradient.low, gradient.high, getGradientT(z, in)), LAMBDA hsl :
  Then(acquireColorBuffer(run), LAMBDA acq :
    [run |-> [acq.run EXCEPT !.colorPool[acq.slot + 1] =
                               hslToRgbBuff(hsl, acq.run.colorPool[acq.slot + 1])],
     slot |-> acq.slot]))

\* variant: the colour is taken at the Z of the first endpoint
addSubSegmentAtSource(run, p1, p2, gradient, in) ==
  Then(getGradientColor(run, p1[3], gradient, in),
       LAMBDA col :
         [col.run EXCEPT !.segments =
            Append(@, [sourcePosition |-> p1, targetPosition |-> p2,
                       color |-> col.slot])])

addSubSegment(run, p1, p2, gradient, in) ==
  Then(getGradientColor(run, FDiv(FAdd(p1[3], p2[3]), 2 * Unit), gradient, in),
       LAMBDA col :
         [col.run EXCEPT !.segments =
            Append(@, [sourcePosition |-> p1, targetPosition |-> p2,
                       color |-> col.slot])])

RECURSIVE subdivideLoopInclusive(_, _, _, _, _, _)
\* variant: the loop runs while i <= GRADIENT_SUBDIVISIONS
subdivideLoopInclusive(run, source, target, gradient, in, i) ==
  IF i <= GRADIENT_SUBDIVISIONS
    THEN LET t1 == FDiv(i * Unit, GRADIENT_SUBDIVISIONS * Unit)
             t2 == FDiv((i + 1) * Unit, GRADIENT_SUBDIVISIONS * Unit)
             p1 == lerp3(source, target, t1)
             p2 == lerp3(source, target, t2)
         IN Then(addSubSegment(run, p1, p2, gradient, in),
                 LAMBDA next : subdivideLoopInclusive(next, source, target, gradient, in, i + 1))
    ELSE run

RECURSIVE subdivideLoopShifted(_, _, _, _, _, _)
\* variant: the parameters run from 1/N to (N+1)/N
subdivideLoopShifted(run, source, target, gradient, in, i) ==
  IF i < GRADIENT_SUBDIVISIONS
    THEN LET t1 == FDiv((i + 1) * Unit, GRADIENT_SUBDIVISIONS * Unit)
             t2 == FDiv((i + 2) * Unit, GRADIENT_SUBDIVISIONS * Unit)
             p1 == lerp3(source, target, t1)
             p2 == lerp3(source, target, t2)
         IN Then(addSubSegment(run, p1, p2, gradient, in),
                 LAMBDA next : subdivideLoopShifted(next, source, target, gradient, in, i + 1))
    ELSE run

RECURSIVE subdivideLoop(_, _, _, _, _, _)
subdivideLoop(run, source, target, gradient, in, i) ==
  IF i < GRADIENT_SUBDIVISIONS
    THEN LET t1 == FDiv(i * Unit, GRADIENT_SUBDIVISIONS * Unit)
             t2 == FDiv((i + 1) * Unit, GRADIENT_SUBDIVISIONS * Unit)
             p1 == lerp3(source, target, t1)
             p2 == lerp3(source, target, t2)
         IN Then(addSubSegment(run, p1, p2, gradient, in),
                 LAMBDA next : subdivideLoop(next, source, target, gradient, in, i + 1))
    ELSE run

subdivideSegment(run, source, target, gradient, in) ==
  subdivideLoop(run, source, target, gradient, in, 0)

\* variant: a vertex on the cutoff counts as above
IsAboveOrOn(z, zCutoff) == z >= zCutoff

IsAbove(z, zCutoff) == z > zCutoff

\* variant: a crossing edge is cut at the crossing point and only the part
\* up to it is emitted
processSegmentFirstHalfOnly(run, source, target, direction, in) ==
  LET sourceZ == source[3]
      targetZ == target[3]
      sourceAbove == IsAbove(sourceZ, in.zCutoff)
      targetAbove == IsAbove(targetZ, in.zCutoff)
      gradientBelow == IF direction = "x" THEN in.gradients.xBelow
                                          ELSE in.gradients.yBelow
      gradientAbove == IF direction = "x" THEN in.gradients.xAbove
                                          ELSE in.gradients.yAbove
  IN IF sourceAbove = targetAbove
       THEN subdivideSegment(run, source, target,
                             IF sourceAbove THEN gradientAbove ELSE gradientBelow, in)
       ELSE LET t == FDiv(FSub(in.zCutoff, sourceZ), FSub(targetZ, sourceZ))
                midPoint == lerp3(source, target, t)
            IN subdivideSegment(run, source, midPoint,
                                IF sourceAbove THEN gradientAbove ELSE gradientBelow, in)

\* variant: a crossing edge is cut at its middle, not at the crossing point
processSegmentCutAtMiddle(run, source, target, direction, in) ==
  LET sourceAbove == IsAbove(source[3], in.zCutoff)
      targetAbove == IsAbove(target[3], in.zCutoff)
      gradientBelow == IF direction = "x" THEN in.gradients.xBelow
                                          ELSE in.gradients.yBelow
      gradientAbove == IF direction = "x" THEN in.gradients.xAbove
                                          ELSE in.gradients.yAbove
  IN IF sourceAbove = targetAbove
       THEN subdivideSegment(run, source, target,
                             IF sourceAbove THEN gradientAbove ELSE gradientBelow, in)
       ELSE LET midPoint == lerp3(source, target, OneHalf)
            IN Then(subdivideSegment(run, source, midPoint,
                                     IF sourceAbove THEN gradientAbove ELSE gradientBelow, in),
                    LAMBDA half : subdivideSegment(half, midPoint, target,
                                     IF targetAbove THEN gradientAbove ELSE gradientBelow, in))

\* variant: the second half is coloured by the source's side
processSegmentSourceSideTwice(run, source, target, direction, in) ==
  LET sourceAbove == IsAbove(source[3], in.zCutoff)
      targetAbove == IsAbove(target[3], in.zCutoff)
      gradientBelow == IF direction = "x" THEN in.gradients.xBelow
                                          ELSE in.gradients.yBelow
      gradientAbove == IF direction = "x" THEN in.gradients.xAbove
                                          ELSE in.gradients.yAbove
      sourceGradient == IF sourceAbove THEN gradientAbove ELSE gradientBelow
  IN IF sourceAbove = targetAbove
       THEN subdivideSegment(run, source, target, sourceGradient, in)
       ELSE LET t == FDiv(FSub(in.zCutoff, source[3]), FSub(target[3], source[3]))
                midPoint == lerp3(source, target, t)
            IN Then(subdivideSegment(run, source, midPoint, sourceGradient, in),
                    LAMBDA half : subdivideSegment(half, midPoint, target,
                                                   sourceGradient, in))

processSegment(run, source, target, direction, in) ==
  LET sourceZ == source[3]
      targetZ == target[3]
      sourceAbove == IsAbove(sourceZ, in.zCutoff)
      targetAbove == IsAbove(targetZ, in.zCutoff)
      gradientBelow == IF direction = "x" THEN in.gradients.xBelow
                                          ELSE in.gradients.yBelow
      gradientAbove == IF direction = "x" THEN in.gradients.xAbove
                                          ELSE in.gradients.yAbove
  IN IF sourceAbove = targetAbove
       THEN subdivideSegment(run, source, target,
                             IF sourceAbove THEN gradientAbove ELSE gradientBelow, in)
       ELSE LET t == FDiv(FSub(in.zCutoff, sourceZ), FSub(targetZ, sourceZ))
                midPoint == lerp3(source, target, t)
                sourceGradient == IF sourceAbove THEN gradientAbove ELSE gradientBelow
                targetGradient == IF targetAbove THEN gradientAbove ELSE gradientBelow
            IN Then(subdivideSegment(run, source, midPoint, sourceGradient, in),
                    LAMBDA half : subdivideSegment(half, midPoint, target, targetGradient, in))

Vertex(in, j, i) == << in.X[j + 1][i + 1], in.Y[j + 1][i + 1], in.Z[j + 1][i + 1] >>

\* processSegment, with the pair of grid indices noted in the run's log
processEdgeAt(run, in, j1, i1, j2, i2, direction) ==
  LET done == processSegment(run, Vertex(in, j1, i1), Vertex(in, j2, i2), direction, in)
  IN [done EXCEPT !.edges = Append(@, [from |-> <<j1, i1>>, to |-> <<j2, i2>>,
                                       direction |-> direction])]

RECURSIVE xDirectionLinesShort(_, _, _, _, _, _)
\* variant: the row loop stops one row early, as the column loop does
xDirectionLinesShort(run, in, rows, cols, j, i) ==
  IF j < rows - 1
    THEN IF i < cols - 1
           THEN Then(processEdgeAt(run, in, j, i, j, i + 1, "x"),
                     LAMBDA next : xDirectionLinesShort(next, in, rows, cols, j, i + 1))
           ELSE xDirectionLinesShort(run, in, rows, cols, j + 1, 0)
    ELSE run

RECURSIVE xDirectionLines(_, _, _, _, _, _)
xDirectionLines(run, in, rows, cols, j, i) ==
  IF j < rows
    THEN IF i < cols - 1
           THEN Then(processEdgeAt(run, in, j, i, j, i + 1, "x"),
                     LAMBDA next : xDirectionLines(next, in, rows, cols, j, i + 1))
           ELSE xDirectionLines(run, in, rows, cols, j + 1, 0)
    ELSE run

RECURSIVE yDirectionLines(_, _, _, _, _, _)
yDirectionLines(run, in, rows, cols, j, i) ==
  IF j < rows - 1
    THEN IF i < cols
           THEN Then(processEdgeAt(run, in, j, i, j + 1, i, "y"),
                     LAMBDA next : yDirectionLines(next, in, rows, cols, j, i + 1))
           ELSE yDirectionLines(run, in, rows, cols, j + 1, 0)
    ELSE run

\* the whole function: the pool it leaves behind and the array it returns
meshToColoredSegments(pool, poolIndex, in) ==
  LET start == resetColorPool([colorPool |-> pool, colorPoolIndex |-> poolIndex,
                               segments |-> << >>, edges |-> << >>])
      rows == Len(in.Z)
      cols == Len(in.Z[1])
  IN Then(xDirectionLines(start, in, rows, cols, 0, 0),
          LAMBDA afterX : yDirectionLines(afterX, in, rows, cols, 0, 0))

----------------------------------------------------------------------------
(* App: the mesh, its Z range, the cutoff, and the memoised segments *)

AllZ(z) == {z[j][i] : j \in 1..Len(z), i \in 1..Len(z[1])}

zMinOf(z) == CHOOSE m \in AllZ(z) : \A v \in AllZ(z) : m <= v

zMaxOf(z) == CHOOSE m \in AllZ(z) : \A v \in AllZ(z) : m >= v

zCutoffOf(z, percent) ==
  FAdd(zMinOf(z), FMul(FDiv(percent * Unit, 100 * Unit),
                       FSub(zMaxOf(z), zMinOf(z))))

InputsOf(percent, g) ==
  [X |-> X, Y |-> Y, Z |-> Z, zCutoff |-> zCutoffOf(Z, percent),
   zMin |-> zMinOf(Z), zMax |-> zMaxOf(Z), gradients |-> g]

\* what the colours of a returned array read right now
ReadColors(segments, pool) == [k \in 1..Len(segments) |-> pool[segments[k].color + 1]]

\* the module state after a run, and the returned array noted in calls
Commit(run, percent, g) ==
  /\ colorPool' = run.colorPool
  /\ colorPoolIndex' = run.colorPoolIndex
  /\ edgeLog' = run.edges
  /\ nextObject' = nextObject + 1
  /\ calls' = Append(calls, [array |-> nextObject,
                             zCutoffPercent |-> percent,
                             gradients |-> g,
                             segments |-> run.segments,
                             seen |-> ReadColors(run.segments, run.colorPool)])

\* the coloredSegments memo runs meshToColoredSegments on the current inputs
ComputeColoredSegments(percent, g) ==
  Commit(meshToColoredSegments(colorPool, colorPoolIndex, InputsOf(percent, g)),
         percent, g)

Init ==
  /\ \E rows \in 1..MaxRows, cols \in 1..MaxCols, shape \in MeshShapes :
       /\ Z = [j \in 1..rows |-> [i \in 1..cols |-> HeightAt(shape, j - 1, i - 1)]]
       /\ X = [j \in 1..rows |-> [i \in 1..cols |-> (i - 1) * Unit]]
       /\ Y = [j \in 1..rows |-> [i \in 1..cols |-> (j - 1) * Unit]]
  /\ colorPool = << >>
  /\ colorPoolIndex = 0
  /\ calls = << >>
  /\ edgeLog = << >>
  /\ nextObject = 1
  /\ hoverInfo = NoInfo
  /\ pinnedInfo = NoInfo
  /\ zCutoffPercent = DefaultZCutoffPercent
  /\ gradients = DEFAULT_GRADIENTS

\* first render
Mount ==
  /\ calls = << >>
  /\ ComputeColoredSegments(zCutoffPercent, gradients)
  /\ UNCHANGED <<hoverInfo, pinnedInfo, X, Y, Z, zCutoffPercent, gradients>>

\* the cutoff slider moves: the memo's zCutoff dependency changes
SetZCutoffPercent(percent) ==
  /\ calls # << >>
  /\ Len(calls) < MaxCalls
  /\ percent # zCutoffPercent
  /\ zCutoffPercent' = percent
  /\ IF zCutoffOf(Z, percent) = zCutoffOf(Z, zCutoffPercent)
       THEN \* the memo's dependencies are unchanged: no recomputation
            UNCHANGED <<colorPool, colorPoolIndex, calls, edgeLog, nextObject>>
       ELSE ComputeColoredSegments(percent, gradients)
  /\ UNCHANGED <<hoverInfo, pinnedInfo, X, Y, Z, gradients>>

\* a gradient edit: setGradients installs a new object, the memo re-runs
SetGradients(g) ==
  /\ calls # << >>
  /\ Len(calls) < MaxCalls
  /\ g # gradients
  /\ gradients' = g
  /\ ComputeColoredSegments(zCutoffPercent, g)
  /\ UNCHANGED <<hoverInfo, pinnedInfo, X, Y, Z, zCutoffPercent>>

Next ==
  \/ Mount
  \/ \E percent \in PercentChoices : SetZCutoffPercent(percent)
  \/ \E g \in GradientChoices : SetGradients(g)

Spec == Init /\ [][Next]_vars

TypeOK ==
  /\ colorPoolIndex \in 0..Len(colorPool)
  /\ Len(calls) <= MaxCalls

----------------------------------------------------------------------------
(* Vocabulary of the properties *)

HasRun == calls # << >>

Last == calls[Len(calls)]

Rows == Len(Z)

Cols == Len(Z[1])

\* an edge of the grid is a pair of vertex indices <<j, i>> (0-based)
RowEdges == {<< <<j, i>>, <<j, i + 1>> >> : j \in 0..(Rows - 1), i \in 0..(Cols - 2)}

ColEdges == {<< <<j, i>>, <<j + 1, i>> >> : j \in 0..(Rows - 2), i \in 0..(Cols - 1)}

GridEdges == RowEdges \cup ColEdges

TotalEdges == Rows * (Cols - 1) + (Rows - 1) * Cols

ZAt(v) == Z[v[1] + 1][v[2] + 1]

PositionAt(v) == << X[v[1] + 1][v[2] + 1], Y[v[1] + 1][v[2] + 1], ZAt(v) >>

LastCutoff == zCutoffOf(Z, Last.zCutoffPercent)

\* the two endpoints lie on opposite sides of the cutoff c
Straddles(from, to, c) == (ZAt(from) > c) # (ZAt(to) > c)

StraddlingEdges(c) == {e \in GridEdges : Straddles(e[1], e[2], c)}

TimesLogged(from, to, direction) ==
  Cardinality({k \in 1..Len(edgeLog) :
                 /\ edgeLog[k].from = from
                 /\ edgeLog[k].to = to
                 /\ edgeLog[k].direction = direction})

----------------------------------------------------------------------------
(* C1.  One invocation hands processSegment each row-direction edge           *)
(* (j,i)-(j,i+1) and each column-direction edge (j,i)-(j+1,i) exactly once,   *)
(* and no other pair of vertices: rows*(cols-1) + (rows-1)*cols edges in all. *)
C1_EachEdgeOnce ==
  HasRun =>
    /\ \A e \in RowEdges : TimesLogged(e[1], e[2], "x") = 1
    /\ \A e \in ColEdges : TimesLogged(e[1], e[2], "y") = 1
    /\ Len(edgeLog) = TotalEdges
    /\ Cardinality(GridEdges) = TotalEdges

\* a run over a grid that has both row and column edges
C1_Witness ==
  /\ HasRun
  /\ Rows >= 2
  /\ Cols >= 2
  /\ Len(edgeLog) >= 4

----------------------------------------------------------------------------
(* C2.  The number of segments one invocation writes is at most               *)
(* totalEdges*2*GRADIENT_SUBDIVISIONS, no colour write lands in a slot at or  *)
(* past that number, and the count equals the bound exactly when every edge   *)
(* of the grid straddles the cutoff.                                          *)
MaxSegments == TotalEdges * 2 * GRADIENT_SUBDIVISIONS

C2_CountWithinWorstCase ==
  HasRun =>
    /\ Len(Last.segments) <= MaxSegments
    /\ colorPoolIndex <= MaxSegments
    /\ \A k \in 1..Len(Last.segments) : Last.segments[k].color < MaxSegments
    /\ (Len(Last.segments) = MaxSegments) <=> (StraddlingEdges(LastCutoff) = GridEdges)

\* a run in which every one of at least four edges straddles the cutoff
C2_Witness ==
  /\ HasRun
  /\ TotalEdges >= 4
  /\ StraddlingEdges(LastCutoff) = GridEdges
  /\ Len(Last.segments) = MaxSegments

----------------------------------------------------------------------------
(* C3.  The segment count of one invocation is                                *)
(* GRADIENT_SUBDIVISIONS * (totalEdges + S), S the number of edges whose      *)
(* endpoints lie on opposite sides of the cutoff.                             *)
C3_CountFormula ==
  HasRun =>
    Len(Last.segments) =
      GRADIENT_SUBDIVISIONS * (TotalEdges + Cardinality(StraddlingEdges(LastCutoff)))

\* a run with some edges straddling and some not
C3_Witness ==
  /\ HasRun
  /\ StraddlingEdges(LastCutoff) # {}
  /\ StraddlingEdges(LastCutoff) # GridEdges
  /\ Len(Last.segments) > GRADIENT_SUBDIVISIONS * TotalEdges

----------------------------------------------------------------------------
(* Where the segments of each edge lie in the returned array *)

N == GRADIENT_SUBDIVISIONS

LoggedFrom(k) == PositionAt(edgeLog[k].from)

LoggedTo(k) == PositionAt(edgeLog[k].to)

LoggedStraddles(k) == Straddles(edgeLog[k].from, edgeLog[k].to, LastCutoff)

RECURSIVE OffsetOf(_)
\* the segments due before those of the k-th logged edge: N for each earlier
\* edge, and N more for each earlier edge that straddles
OffsetOf(k) ==
  IF k <= 1 THEN 0
  ELSE OffsetOf(k - 1) + (IF LoggedStraddles(k - 1) THEN 2 * N ELSE N)

\* the parameter i/N
Param(i) == FDiv(i * Unit, N * Unit)

\* the point where the line from source to target meets height c
Crossing(source, target, c) ==
  lerp3(source, target, FDiv(FSub(c, source[3]), FSub(target[3], source[3])))

\* segments off+1 .. off+N are the N equal parts of the line from a to b
IsSubdivision(off, a, b) ==
  /\ off + N <= Len(Last.segments)
  /\ \A i \in 0..(N - 1) :
       /\ Last.segments[off + 1 + i].sourcePosition = lerp3(a, b, Param(i))
       /\ Last.segments[off + 1 + i].targetPosition = lerp3(a, b, Param(i + 1))

\* every segment of the array belongs to a logged edge
AllAccounted == OffsetOf(Len(edgeLog) + 1) = Len(Last.segments)

----------------------------------------------------------------------------
(* C4.  On every edge that straddles the cutoff, the crossing point (the      *)
(* start of the second half) has Z equal to the cutoff exactly.               *)
(* The code interpolates Z like X and Y, so this is stated to be refuted.     *)
C4_CrossingZIsCutoff ==
  HasRun =>
    \A k \in 1..Len(edgeLog) :
      LoggedStraddles(k) =>
        Last.segments[OffsetOf(k) + N + 1].sourcePosition[3] = LastCutoff

----------------------------------------------------------------------------
(* C5.  For every edge that straddles the cutoff, processSegment emits        *)
(* exactly N sub-segments from the source to the crossing point and then      *)
(* exactly N from the crossing point to the target, 2N in all.                *)
C5_SplitEdgeTwoHalves ==
  HasRun =>
    /\ AllAccounted
    /\ \A k \in 1..Len(edgeLog) :
         LoggedStraddles(k) =>
           LET mid == Crossing(LoggedFrom(k), LoggedTo(k), LastCutoff)
           IN /\ IsSubdivision(OffsetOf(k), LoggedFrom(k), mid)
              /\ IsSubdivision(OffsetOf(k) + N, mid, LoggedTo(k))
              /\ OffsetOf(k + 1) = OffsetOf(k) + 2 * N

\* a run with a straddling edge whose crossing point is neither endpoint
C5_Witness ==
  /\ HasRun
  /\ \E k \in 1..Len(edgeLog) :
       /\ LoggedStraddles(k)
       /\ Crossing(LoggedFrom(k), LoggedTo(k), LastCutoff) # LoggedFrom(k)
       /\ Crossing(LoggedFrom(k), LoggedTo(k), LastCutoff) # LoggedTo(k)
       /\ Len(Last.segments) >= OffsetOf(k) + 2 * N

----------------------------------------------------------------------------
(* C6.  For every edge whose endpoints are on the same side of the cutoff,    *)
(* exactly N sub-segments are emitted, the i-th (i = 0..N-1) running from     *)
(* the point at parameter i/N to the point at parameter (i+1)/N of the        *)
(* linear interpolation between the edge's source and target.                 *)
C6_UniformEdgeSubdivided ==
  HasRun =>
    /\ AllAccounted
    /\ \A k \in 1..Len(edgeLog) :
         ~LoggedStraddles(k) =>
           /\ IsSubdivision(OffsetOf(k), LoggedFrom(k), LoggedTo(k))
           /\ OffsetOf(k + 1) = OffsetOf(k) + N

\* a run with an edge on one side of the cutoff whose ends differ in height
C6_Witness ==
  /\ HasRun
  /\ \E k \in 1..Len(edgeLog) :
       /\ ~LoggedStraddles(k)
       /\ LoggedFrom(k)[3] # LoggedTo(k)[3]
       /\ Len(Last.segments) >= OffsetOf(k) + N

----------------------------------------------------------------------------
(* The colour a sub-segment is due, given the gradient of its piece *)

LastInputs == InputsOf(Last.zCutoffPercent, Last.gradients)

Above(z) == z > LastCutoff

GradientFor(direction, above) ==
  IF direction = "x"
    THEN (IF above THEN Last.gradients.xAbove ELSE Last.gradients.xBelow)
    ELSE (IF above THEN Last.gradients.yAbove ELSE Last.gradients.yBelow)

ExpectedColor(segment, gradient) ==
  LET midZ == FDiv(FAdd(segment.sourcePosition[3], segment.targetPosition[3]), 2 * Unit)
  IN hslToRgbBuff(lerpHsl(gradient.low, gradient.high, getGradientT(midZ, LastInputs)),
                  <<0, 0, 0, 255>>)

\* segments off+1 .. off+N all carry the colour due from the gradient
ColouredBy(off, gradient) ==
  \A m \in (off + 1)..(off + N) :
    /\ m <= Len(Last.segments)
    /\ Last.seen[m] = ExpectedColor(Last.segments[m], gradient)

\* the k-th logged edge has one end on the cutoff and the other below it
TieWithBelow(k) ==
  \/ LoggedFrom(k)[3] = LastCutoff /\ LoggedTo(k)[3] < LastCutoff
  \/ LoggedTo(k)[3] = LastCutoff /\ LoggedFrom(k)[3] < LastCutoff

\* the k-th logged edge has one end on the cutoff and the other above it
TieWithAbove(k) ==
  \/ LoggedFrom(k)[3] = LastCutoff /\ LoggedTo(k)[3] > LastCutoff
  \/ LoggedTo(k)[3] = LastCutoff /\ LoggedFrom(k)[3] > LastCutoff

\* the k-th logged edge takes exactly n segments: its first segment starts at
\* its source vertex, and what follows is the next edge or the array's end
TakesExactly(k, n) ==
  /\ OffsetOf(k) + n <= Len(Last.segments)
  /\ Last.segments[OffsetOf(k) + 1].sourcePosition = LoggedFrom(k)
  /\ IF k = Len(edgeLog)
       THEN Len(Last.segments) = OffsetOf(k) + n
       ELSE Last.segments[OffsetOf(k) + n + 1].sourcePosition = LoggedFrom(k + 1)

----------------------------------------------------------------------------
(* C7.  A vertex is above the cutoff iff its Z is strictly greater; a vertex  *)
(* on the cutoff is below.  So every edge is split (2N segments) exactly      *)
(* when one end is strictly above and the other is not; an edge with one end  *)
(* on the cutoff and the other below is not split and is coloured by the      *)
(* below gradient; an edge with one end on the cutoff and the other above is  *)
(* split, the half at the cutoff end coloured by the below gradient.          *)
C7_StrictlyAbove ==
  HasRun =>
    \A k \in 1..Len(edgeLog) :
      /\ TakesExactly(k, IF Above(LoggedFrom(k)[3]) # Above(LoggedTo(k)[3])
                           THEN 2 * N ELSE N)
      /\ TieWithBelow(k) =>
           /\ TakesExactly(k, N)
           /\ ColouredBy(OffsetOf(k), GradientFor(edgeLog[k].direction, FALSE))
      /\ TieWithAbove(k) =>
           /\ TakesExactly(k, 2 * N)
           /\ ColouredBy(OffsetOf(k) + (IF LoggedFrom(k)[3] = LastCutoff THEN 0 ELSE N),
                         GradientFor(edgeLog[k].direction, FALSE))
           /\ ColouredBy(OffsetOf(k) + (IF LoggedFrom(k)[3] = LastCutoff THEN N ELSE 0),
                         GradientFor(edgeLog[k].direction, TRUE))

\* one run with an edge from below up to the cutoff and an edge from the
\* cutoff up to a vertex above it
C7_Witness ==
  /\ HasRun
  /\ \E k \in 1..Len(edgeLog) : TieWithBelow(k) /\ TakesExactly(k, N)
  /\ \E k \in 1..Len(edgeLog) : TieWithAbove(k) /\ TakesExactly(k, 2 * N)

----------------------------------------------------------------------------
(* C8.  Every sub-segment is coloured by the gradient keyed by the direction  *)
(* of its edge and the side of its piece: row edges use xBelow/xAbove and     *)
(* column edges yBelow/yAbove; an edge on one side uses the side of its       *)
(* endpoints; on a split edge the first half uses the source's side and the   *)
(* second half the target's side.                                             *)
C8_GradientByDirectionAndSide ==
  HasRun =>
    /\ AllAccounted
    /\ \A k \in 1..Len(edgeLog) :
         LET direction == edgeLog[k].direction
             sourceSide == Above(LoggedFrom(k)[3])
             targetSide == Above(LoggedTo(k)[3])
         IN /\ ColouredBy(OffsetOf(k), GradientFor(direction, sourceSide))
            /\ sourceSide # targetSide =>
                 ColouredBy(OffsetOf(k) + N, GradientFor(direction, targetSide))

\* a run over row and column edges, split and not, above and below
C8_Witness ==
  /\ HasRun
  /\ \E k \in 1..Len(edgeLog) : edgeLog[k].direction = "x"
  /\ \E k \in 1..Len(edgeLog) : edgeLog[k].direction = "y"
  /\ \E k \in 1..Len(edgeLog) :
       LoggedStraddles(k) /\ LoggedFrom(k)[3] # LastCutoff /\ LoggedTo(k)[3] # LastCutoff
  /\ \E k \in 1..Len(edgeLog) :
       ~LoggedStraddles(k) /\ Above(LoggedFrom(k)[3])
  /\ \E k \in 1..Len(edgeLog) :
       ~LoggedStraddles(k) /\ ~Above(LoggedFrom(k)[3])
  /\ Len(Last.seen) = Len(Last.segments)

----------------------------------------------------------------------------
(* C9.  Two calls with the same grid, cutoff, Z range and gradients return    *)
(* the same number of segments with the same positions and colours, whatever  *)
(* calls ran in between, and each returns a new array object.                 *)
SameInputs(a, b) ==
  /\ zCutoffOf(Z, calls[a].zCutoffPercent) = zCutoffOf(Z, calls[b].zCutoffPercent)
  /\ calls[a].gradients = calls[b].gradients

Positions(a) ==
  [k \in 1..Len(calls[a].segments) |->
     << calls[a].segments[k].sourcePosition, calls[a].segments[k].targetPosition >>]

C9_SameInputsSameSegments ==
  \A a \in 1..Len(calls) : \A b \in (a + 1)..Len(calls) :
    /\ calls[a].array # calls[b].array
    /\ SameInputs(a, b) =>
         /\ Len(calls[a].segments) = Len(calls[b].segments)
         /\ Positions(a) = Positions(b)
         /\ calls[a].seen = calls[b].seen

\* two calls with the same inputs, a call with other inputs between them
C9_Witness ==
  \E a \in 1..Len(calls) : \E b \in (a + 2)..Len(calls) :
    /\ SameInputs(a, b)
    /\ ~SameInputs(a, a + 1)
    /\ calls[a].seen # calls[a + 1].seen
    /\ Len(calls[b].segments) >= N

----------------------------------------------------------------------------
(* C10.  The colour storage is shared by successive calls: the k-th segment   *)
(* of one call and the k-th segment of the next hold the same pool buffer,    *)
(* so once the next call has run, the colour read through the earlier         *)
(* call's k-th segment is the later call's k-th colour, for every k below     *)
(* both counts.                                                               *)
Previous == calls[Len(calls) - 1]

SharedCount ==
  IF Len(Previous.segments) < Len(Last.segments)
    THEN Len(Previous.segments) ELSE Len(Last.segments)

\* the colour read now through segment k of the earlier result
StaleRead(k) == colorPool[Previous.segments[k].color + 1]

C10_EarlierHandleStale ==
  Len(calls) >= 2 =>
    \A k \in 1..SharedCount :
      /\ Previous.segments[k].color = Last.segments[k].color
      /\ StaleRead(k) = Last.seen[k]

\* the next call has overwritten a colour the earlier call returned
C10_Witness ==
  /\ Len(calls) >= 2
  /\ \E k \in 1..SharedCount :
       /\ StaleRead(k) # Previous.seen[k]
       /\ StaleRead(k) = Last.seen[k]

----------------------------------------------------------------------------
(* C11.  Across any sequence of calls the pool never shrinks: each step       *)
(* leaves its length at least what it was (buffers are only ever added), and  *)
(* after each call the length is the largest segment count any single call    *)
(* has produced so far.                                                       *)
RECURSIVE PeakOver(_, _)
\* the largest segment count among the first n recorded calls
PeakOver(history, n) ==
  IF n = 0 THEN 0
  ELSE LET before == PeakOver(history, n - 1)
           here == Len(history[n].segments)
       IN IF here > before THEN here ELSE before

PeakCount == PeakOver(calls, Len(calls))

----------------------------------------------------------------------------
LargerOf(a, b) == IF a > b THEN a ELSE b

----------------------------------------------------------------------------
(* meshToColoredSegments called on any grid, the empty ones included *)

\* The function's first statements read Z[0].length: with no rows Z[0] is
\* undefined and the read throws a TypeError before any edge is walked.
meshToColoredSegmentsOutcome(pool, poolIndex, in) ==
  IF Len(in.Z) = 0
    THEN [threw |-> TRUE,
          run |-> resetColorPool([colorPool |-> pool, colorPoolIndex |-> poolIndex,
                                  segments |-> << >>, edges |-> << >>])]
    ELSE [threw |-> FALSE, run |-> meshToColoredSegments(pool, poolIndex, in)]

\* a grid without vertices has no Z range; the walk reads none of these values
GridInputs(percent, g) ==
  IF Len(Z) = 0 \/ Len(Z[1]) = 0
    THEN [X |-> X, Y |-> Y, Z |-> Z, zCutoff |-> 0, zMin |-> 0, zMax |-> 0,
          gradients |-> g]
    ELSE InputsOf(percent, g)

\* the module state after the call, and what the caller got, noted in calls
RecordOutcome(out, percent, g) ==
  /\ colorPool' = out.run.colorPool
  /\ colorPoolIndex' = out.run.colorPoolIndex
  /\ edgeLog' = out.run.edges
  /\ nextObject' = IF out.threw THEN nextObject ELSE nextObject + 1
  /\ calls' = Append(calls, [array |-> IF out.threw THEN 0 ELSE nextObject,
                             threw |-> out.threw,
                             zCutoffPercent |-> percent,
                             gradients |-> g,
                             segments |-> out.run.segments,
                             seen |-> ReadColors(out.run.segments, out.run.colorPool)])

InitAnyGrid ==
  /\ \E rows \in 0..MaxRows, cols \in 0..MaxCols, shape \in MeshShapes :
       /\ Z = [j \in 1..rows |-> [i \in 1..cols |-> HeightAt(shape, j - 1, i - 1)]]
       /\ X = [j \in 1..rows |-> [i \in 1..cols |-> (i - 1) * Unit]]
       /\ Y = [j \in 1..rows |-> [i \in 1..cols |-> (j - 1) * Unit]]
  /\ zCutoffPercent \in PercentChoices \cup {DefaultZCutoffPercent}
  /\ gradients \in GradientChoices
  /\ colorPool = << >>
  /\ colorPoolIndex = 0
  /\ calls = << >>
  /\ edgeLog = << >>
  /\ nextObject = 1
  /\ hoverInfo = NoInfo
  /\ pinnedInfo = NoInfo

CallOnGrid ==
  /\ calls = << >>
  /\ RecordOutcome(meshToColoredSegmentsOutcome(colorPool, colorPoolIndex,
                                                GridInputs(zCutoffPercent, gradients)),
                   zCutoffPercent, gradients)
  /\ UNCHANGED <<hoverInfo, pinnedInfo, X, Y, Z, zCutoffPercent, gradients>>

SpecAnyGrid == InitAnyGrid /\ [][CallOnGrid]_vars

\* the grid has no vertex: no rows, or rows without columns
EmptyGrid == Len(Z) = 0 \/ Len(Z[1]) = 0

----------------------------------------------------------------------------
(* C13.  For a grid with zero rows, and for a grid with zero columns, the     *)
(* call returns normally with no segments and raises no error.  With zero     *)
(* rows the code throws, so this is stated to be refuted.                     *)
C13_EmptyGridNoError ==
  (HasRun /\ EmptyGrid) => (~Last.threw /\ Len(Last.segments) = 0)

----------------------------------------------------------------------------
(* The colour functions called on their own: hslToRgbBuff, lerpHsl *)

\* hues k * 360 / HueSteps in [0, 360), and one hue off that grid
HueInputs == {Lit(k * 360, HueSteps) : k \in 0..(HueSteps - 1)} \cup {Lit(3595, 10)}

\* saturations and lightnesses k / LevelSteps in [0, 1]
LevelInputs == {Lit(k, LevelSteps) : k \in 0..LevelSteps}

AlphaInputs == {255, 128}

HslInputs ==
  {<<h, sat, l, a>> : h \in HueInputs, sat \in LevelInputs, l \in LevelInputs,
                      a \in AlphaInputs}

\* the buffers a caller holds: a fresh pool buffer, and a longer array with
\* values left from earlier use
CallerBuffers == << <<0, 0, 0, 255>>, <<7, 8, 9, 128, 77>> >>

\* variant: the result is written to a copy, and the copy is returned
callHslToRgbBuffCopy(pool, hslColorIn, ref) ==
  [pool |-> Append(pool, hslToRgbBuff(hslColorIn, pool[ref])),
   returned |-> Len(pool) + 1]

\* hslToRgbBuff called with the buffer at place ref of the pool: the buffer is
\* written in place and the same buffer is returned
callHslToRgbBuff(pool, hslColorIn, ref) ==
  [pool |-> [pool EXCEPT ![ref] = hslToRgbBuff(hslColorIn, pool[ref])],
   returned |-> ref]

NoteConversion(out, hslColorIn, ref) ==
  /\ colorPool' = out.pool
  /\ calls' = Append(calls, [fn |-> "hslToRgbBuff", hslColorIn |-> hslColorIn,
                             given |-> ref, before |-> colorPool[ref],
                             returned |-> out.returned])

InitColor ==
  /\ X = << >>
  /\ Y = << >>
  /\ Z = << >>
  /\ zCutoffPercent = DefaultZCutoffPercent
  /\ gradients = DEFAULT_GRADIENTS
  /\ colorPool = CallerBuffers
  /\ colorPoolIndex = 0
  /\ calls = << >>
  /\ edgeLog = << >>
  /\ nextObject = 1
  /\ hoverInfo = NoInfo
  /\ pinnedInfo = NoInfo

ConvertHsl(hslColorIn, ref) ==
  /\ calls = << >>
  /\ NoteConversion(callHslToRgbBuff(colorPool, hslColorIn, ref), hslColorIn, ref)
  /\ UNCHANGED <<hoverInfo, pinnedInfo, X, Y, Z, colorPoolIndex, edgeLog, nextObject, zCutoffPercent, gradients>>

Converted == calls # << >> /\ calls[1].fn = "hslToRgbBuff"

\* the buffer the conversion returned, as it reads after the call
Returned == colorPool[calls[1].returned]

\* gradient endpoints: the defaults, edited ones, and a pair set with the
\* sliders to saturations 0.7 and 0.07
LerpEndpoints ==
  {DEFAULT_GRADIENTS.xBelow.low, DEFAULT_GRADIENTS.xBelow.high,
   DEFAULT_GRADIENTS.yBelow.low, EDITED_GRADIENTS.yAbove.high,
   <<Lit(200, 1), Lit(70, 100), Lit(25, 100), 255>>,
   <<Lit(40, 1), Lit(7, 100), Lit(70, 100), 128>>}

LerpGradient(a, b, t) ==
  /\ calls = << >>
  /\ calls' = Append(calls, [fn |-> "lerpHsl", low |-> a, high |-> b, t |-> t,
                             result |-> lerpHsl(a, b, t)])
  /\ UNCHANGED <<hoverInfo, pinnedInfo, X, Y, Z, colorPool, colorPoolIndex, edgeLog, nextObject,
                 zCutoffPercent, gradients>>

NextColor ==
  \/ \E hslColorIn \in HslInputs, ref \in 1..Len(CallerBuffers) :
       ConvertHsl(hslColorIn, ref)
  \/ \E a \in LerpEndpoints, b \in LerpEndpoints, t \in LevelInputs :
       LerpGradient(a, b, t)

SpecColor == InitColor /\ [][NextColor]_vars

Lerped == calls # << >> /\ calls[1].fn = "lerpHsl"

----------------------------------------------------------------------------
(* C14.  For every input with saturation 0, hslToRgbBuff writes               *)
(* R = G = B = round(l * 255), whatever the hue and whatever the buffer held. *)
C14_GreyWhenUnsaturated ==
  (Converted /\ calls[1].hslColorIn[2] = 0) =>
    \A k \in 1..3 : Returned[k] = MathRound(FMul(calls[1].hslColorIn[3], 255 * Unit))

\* a grey of middle lightness, asked with a hue, written over stale values
C14_Witness ==
  /\ Converted
  /\ calls[1].hslColorIn[2] = 0
  /\ calls[1].hslColorIn[1] > 0
  /\ calls[1].before[1] # calls[1].before[2]
  /\ Returned[1] = Returned[2]
  /\ Returned[1] > 0
  /\ Returned[1] < 255

----------------------------------------------------------------------------
(* C15.  hslToRgbBuff returns the very buffer it was given, writes only its   *)
(* first four slots, and leaves in slot 3 the alpha of the input.             *)
C15_WritesGivenBuffer ==
  Converted =>
    /\ calls[1].returned = calls[1].given
    /\ Len(colorPool) = Len(CallerBuffers)
    /\ \A ref \in 1..Len(CallerBuffers) :
         ref # calls[1].given => colorPool[ref] = CallerBuffers[ref]
    /\ Len(Returned) = Len(calls[1].before)
    /\ \A k \in 5..Len(Returned) : Returned[k] = calls[1].before[k]
    /\ Returned[4] = calls[1].hslColorIn[4]

\* the longer buffer, holding alpha 128, is given for an opaque colour
C15_Witness ==
  /\ Converted
  /\ Len(calls[1].before) > 4
  /\ calls[1].before[4] # calls[1].hslColorIn[4]
  /\ Returned[4] = 255
  /\ Returned[5] = 77

----------------------------------------------------------------------------
(* C16.  For every h in [0, 360) and s, l in [0, 1], the three colour         *)
(* channels hslToRgbBuff writes are integers in 0..255.                       *)
C16_ChannelsInByteRange ==
  Converted => \A k \in 1..3 : Returned[k] \in 0..255

\* a saturated colour whose red hue offset h/360 + 1/3 wraps past 1
C16_Witness ==
  /\ Converted
  /\ calls[1].hslColorIn[2] = Unit
  /\ calls[1].hslColorIn[1] > Lit(240, 1)
  /\ Returned[1] = 255
  /\ Returned[2] = 0

----------------------------------------------------------------------------
(* C17.  lerpHsl at t = 0 returns exactly the low endpoint and at t = 1       *)
(* exactly the high endpoint in h, s and l, and for every t the alpha it      *)
(* returns is the alpha of the low endpoint.                                  *)
C17_LerpHitsEndpoints ==
  Lerped =>
    /\ calls[1].result[4] = calls[1].low[4]
    /\ calls[1].t = 0 => \A k \in 1..3 : calls[1].result[k] = calls[1].low[k]
    /\ calls[1].t = Unit => \A k \in 1..3 : calls[1].result[k] = calls[1].high[k]

----------------------------------------------------------------------------
(* The gradient parameter of an emitted sub-segment *)

\* the Z of the midpoint, as addSubSegment takes it
MidZ(segment) ==
  FDiv(FAdd(segment.sourcePosition[3], segment.targetPosition[3]), 2 * Unit)

\* the parameter t the m-th segment of the last run was coloured with
TOf(m) == getGradientT(MidZ(Last.segments[m]), LastInputs)

FlatRange == zMaxOf(Z) = zMinOf(Z)

\* the colour a gradient gives at parameter t
ColourAt(gradient, t) ==
  hslToRgbBuff(lerpHsl(gradient.low, gradient.high, t), <<0, 0, 0, 255>>)

----------------------------------------------------------------------------
(* C18.  When zMax equals zMin, every sub-segment's gradient parameter is     *)
(* 0.5 whatever its Z, its colour is the middle of its gradient, and the run  *)
(* completes with N segments for every edge.                                  *)
C18_FlatRangeTakesMiddle ==
  (HasRun /\ FlatRange) =>
    /\ AllAccounted
    /\ Len(Last.segments) = N * TotalEdges
    /\ \A k \in 1..Len(edgeLog) :
         \A m \in (OffsetOf(k) + 1)..(OffsetOf(k) + N) :
           /\ TOf(m) = OneHalf
           /\ Last.seen[m] = ColourAt(GradientFor(edgeLog[k].direction, FALSE), OneHalf)

\* a run over a level grid with row and column edges, at a height other
\* than zero, whose first segment is coloured from the middle of xBelow
C18_Witness ==
  /\ HasRun
  /\ FlatRange
  /\ TotalEdges >= 4
  /\ zMinOf(Z) # 0
  /\ Len(Last.segments) = N * TotalEdges
  /\ Last.seen[1] = ColourAt(Last.gradients.xBelow, OneHalf)
  /\ Last.seen[1] # ColourAt(Last.gradients.xBelow, 0)

----------------------------------------------------------------------------
(* C19.  When zMin < zMax are the least and greatest Z of the grid, the       *)
(* gradient parameter computed from the midpoint Z of every emitted           *)
(* sub-segment, those of split halves included, lies in [0, 1], for every     *)
(* cutoff.  The crossing point is interpolated and can land just outside the  *)
(* Z range, so this is stated to be refuted.                                  *)
C19_ParameterInUnitRange ==
  (HasRun /\ ~FlatRange) =>
    \A m \in 1..Len(Last.segments) : TOf(m) >= 0 /\ TOf(m) <= Unit

----------------------------------------------------------------------------
(* The gradients query value.  The URL holds a string; JSON.parse either      *)
(* throws on it or yields the document it denotes.  A string is held here as  *)
(* that outcome: whether it is well formed and, if so, the document, whose    *)
(* values carry their JavaScript type.                                        *)

MaxElements == 5

JsonNull == [type |-> "null"]

Undefined == [type |-> "undefined"]

JsonNumber(n) == [type |-> "number", n |-> n]

JsonString(text) == [type |-> "string", text |-> text]

JsonArray(items) == [type |-> "array", items |-> items]

\* members are <<key, value>> pairs in the order written
JsonObject(members) == [type |-> "object", members |-> members]

GradientKeys == <<"xBelow", "xAbove", "yBelow", "yAbove">>

\* value[key]: reading a property of null or undefined throws a TypeError
GetProperty(value, key) ==
  IF value.type \in {"null", "undefined"} THEN [threw |-> TRUE, value |-> Undefined]
  ELSE IF value.type = "object"
            /\ \E k \in 1..Len(value.members) : value.members[k][1] = key
    THEN [threw |-> FALSE,
          value |-> value.members[CHOOSE k \in 1..Len(value.members) :
                                    /\ value.members[k][1] = key
                                    /\ \A later \in (k + 1)..Len(value.members) :
                                         value.members[later][1] # key][2]]
    ELSE [threw |-> FALSE, value |-> Undefined]

\* value?.key
OptionalProperty(value, key) ==
  IF value.type \in {"null", "undefined"} THEN Undefined ELSE GetProperty(value, key).value

\* Array.isArray(value) && value.length === 4
IsArrayOfFour(value) == value.type = "array" /\ Len(value.items) = 4

\* one turn of the loop over keys: "throw", "null" (return null) or "next"
checkKey(parsed, key) ==
  Then(GetProperty(parsed, key), LAMBDA entry :
    IF entry.threw THEN "throw"
    ELSE IF ~IsArrayOfFour(OptionalProperty(entry.value, "low")) THEN "null"
    ELSE IF ~IsArrayOfFour(OptionalProperty(entry.value, "high")) THEN "null"
    ELSE IF \E val \in {GetProperty(entry.value, "low").value.items[k] : k \in 1..4}
                         \cup {GetProperty(entry.value, "high").value.items[k] : k \in 1..4} :
              val.type # "number"
      THEN "null"
    ELSE "next")

RECURSIVE checkKeys(_, _)
\* the loop over keys from the k-th on; "parsed" when it runs to its end
checkKeys(parsed, k) ==
  IF k > Len(GradientKeys) THEN "parsed"
  ELSE Then(checkKey(parsed, GradientKeys[k]), LAMBDA step :
         IF step = "next" THEN checkKeys(parsed, k + 1) ELSE step)

\* the body of the try block
tryParse(value) ==
  IF ~value.wellFormed THEN "throw" ELSE checkKeys(value.document, 1)

\* variant: no catch around the body
parseUncaught(value) ==
  [threw |-> tryParse(value) = "throw", returned |-> tryParse(value)]

\* parseAsGradients.parse: what the body returned, or null when it threw
parse(value) ==
  [threw |-> FALSE,
   returned |-> IF tryParse(value) = "throw" THEN "null" ELSE tryParse(value)]

\* the numbers of a 4-element array of numbers
NumbersOf(array) == [k \in 1..4 |-> array.items[k].n]

\* the document read as a GradientState
AsGradient(entry) ==
  [low |-> NumbersOf(GetProperty(entry, "low").value),
   high |-> NumbersOf(GetProperty(entry, "high").value)]

AsGradientState(document) ==
  [xBelow |-> AsGradient(GetProperty(document, "xBelow").value),
   xAbove |-> AsGradient(GetProperty(document, "xAbove").value),
   yBelow |-> AsGradient(GetProperty(document, "yBelow").value),
   yAbove |-> AsGradient(GetProperty(document, "yAbove").value)]

\* query strings: what JSON.stringify writes for a GradientState, and
\* damaged versions of it
\* Number text.  JSON.stringify writes a finite number with the fewest
\* decimal digits that read back as the same number; JSON.parse reads a
\* decimal as the nearest number.  A text is a pair <<m, e>> for m / 10^e.
MaxDigits == 5

\* the integer nearest to x * 10^e, x in units
NearestDecimal(x, e) ==
  ((x * (10 ^ e)) \div Unit) + (IF 2 * ((x * (10 ^ e)) % Unit) >= Unit THEN 1 ELSE 0)

\* JSON.parse of the decimal m / 10^e
ParseNumber(text) == Lit(text[1], 10 ^ text[2])

ReadsBack(x, e) == ParseNumber(<<NearestDecimal(x, e), e>>) = x

\* variant: one decimal is written, whatever the number
NumberToStringOneDecimal(x) == <<NearestDecimal(x, 1), 1>>

\* Number::toString of a non-negative number
NumberToString(x) ==
  Then(CHOOSE e \in 0..MaxDigits : ReadsBack(x, e) /\ \A d \in 0..(e - 1) : ~ReadsBack(x, d),
       LAMBDA e : <<NearestDecimal(x, e), e>>)

\* h, s and l are numbers of the reduced width, written and read as
\* decimals; alpha is a plain integer, written as it is
ColorDocument(color) ==
  JsonArray([k \in 1..4 |->
               IF k = 4 THEN JsonNumber(color[k])
               ELSE JsonNumber(ParseNumber(NumberToString(color[k])))])

GradientDocument(gradient) ==
  JsonObject(<< <<"low", ColorDocument(gradient.low)>>,
                <<"high", ColorDocument(gradient.high)>> >>)

\* what may stand where a 4-element array of numbers is due; Undefined
\* stands for a member that is not written
ArrayChoices ==
  {Undefined, JsonNull, JsonString("red"), JsonNumber(7)}
    \cup {JsonArray([k \in 1..n |-> JsonNumber(k * Unit)]) : n \in 0..MaxElements}
    \cup {JsonArray([k \in 1..4 |-> IF k = bad THEN other ELSE JsonNumber(k * Unit)]) :
            bad \in 1..4, other \in {JsonString("0.5"), JsonNull}}

Written(members) == SelectSeq(members, LAMBDA member : member[2] # Undefined)

EntryChoices ==
  {Undefined, JsonNull, JsonNumber(7), JsonString("low")}
    \cup {JsonObject(Written(<< <<"low", low>>, <<"high", high>> >>)) :
            low \in ArrayChoices, high \in ArrayChoices}

\* the default gradients with the entry of one key replaced
DamagedDocuments ==
  {JsonObject(Written([k \in 1..4 |->
                         <<GradientKeys[k],
                           IF k = bad THEN entry
                           ELSE GradientDocument(DEFAULT_GRADIENTS[GradientKeys[k]])>>])) :
     bad \in 1..4, entry \in EntryChoices}

StringifiedGradients ==
  {JsonObject([k \in 1..4 |-> <<GradientKeys[k], GradientDocument(g[GradientKeys[k]])>>]) :
     g \in GradientChoices}

\* the HSL sliders of the gradient editor: display range and scale
HSL_CHANNELS ==
  << [label |-> "H", max |-> 360, scale |-> 1],
     [label |-> "S", max |-> 100, scale |-> 100],
     [label |-> "L", max |-> 100, scale |-> 100] >>

\* slider positions tried on each channel: both ends and one between
SliderPositions(ch) == {0, 7, ch.max}

\* variant: the edit lands on the other endpoint of the gradient
updateGradientColorOtherEnd(prev, key, end, index, value) ==
  [prev EXCEPT ![key] =
     [prev[key] EXCEPT ![IF end = "low" THEN "high" ELSE "low"] =
        [prev[key][end] EXCEPT ![index + 1] = value]]]

\* the updater handed to setGradients: a copy of the endpoint with one
\* channel replaced, in a copy of the gradient, in a copy of the state
updateGradientColor(prev, key, end, index, value) ==
  [prev EXCEPT ![key] =
     [prev[key] EXCEPT ![end] = [prev[key][end] EXCEPT ![index + 1] = value]]]

\* the value a slider's onChange passes on: parseFloat(text) / ch.scale
SliderValue(position, ch) == FDiv(position * Unit, ch.scale * Unit)

\* gradient states one slider move away from the chosen configurations
SliderGradients ==
  UNION {{updateGradientColor(prev, GradientKeys[k], end, index,
                              SliderValue(position, HSL_CHANNELS[index + 1])) :
            prev \in GradientChoices, k \in 1..4, end \in {"low", "high"},
            position \in SliderPositions(HSL_CHANNELS[index + 1])} :
         index \in 0..2}

\* parseAsGradients.serialize: JSON.stringify writes every member in order,
\* and each finite number as the text that reads back as that number
serialize(value) ==
  [wellFormed |-> TRUE,
   document |->
     JsonObject([k \in 1..4 |->
                   <<GradientKeys[k], GradientDocument(value[GradientKeys[k]])>>])]

\* the query strings the page writes for the states it can be in
SharedQueryValues == {serialize(g) : g \in GradientChoices \cup SliderGradients}

QueryValues ==
  {[wellFormed |-> FALSE, document |-> Undefined]}
    \cup {[wellFormed |-> TRUE, document |-> d] :
            d \in {JsonNull, JsonNumber(7), JsonString("xBelow"), JsonArray(<< >>),
                   JsonObject(<< >>)}
                  \cup DamagedDocuments \cup StringifiedGradients}
    \cup SharedQueryValues

InitQuery ==
  /\ X = << >>
  /\ Y = << >>
  /\ Z = << >>
  /\ colorPool = << >>
  /\ colorPoolIndex = 0
  /\ calls = << >>
  /\ edgeLog = << >>
  /\ nextObject = 1
  /\ hoverInfo = NoInfo
  /\ pinnedInfo = NoInfo
  /\ zCutoffPercent = DefaultZCutoffPercent
  /\ gradients = DEFAULT_GRADIENTS

\* what useQueryState makes of the outcome: the default for null
ReadOutcome(out, value) ==
  /\ calls' = Append(calls, [fn |-> "parse", value |-> value,
                             threw |-> out.threw, returned |-> out.returned])
  /\ gradients' = IF out.threw THEN gradients
                  ELSE IF out.returned = "parsed" THEN AsGradientState(value.document)
                  ELSE DEFAULT_GRADIENTS

\* the page is opened with this gradients query value
ReadQuery(value) ==
  /\ calls = << >>
  /\ ReadOutcome(parse(value), value)
  /\ UNCHANGED <<hoverInfo, pinnedInfo, X, Y, Z, colorPool, colorPoolIndex, edgeLog, nextObject,
                 zCutoffPercent>>

NextQuery == \E value \in QueryValues : ReadQuery(value)

SpecQuery == InitQuery /\ [][NextQuery]_vars

----------------------------------------------------------------------------
(* What the claim calls an invalid payload *)

Parsed == calls # << >> /\ calls[1].fn = "parse"

HasMember(object, key) ==
  object.type = "object" /\ \E k \in 1..Len(object.members) : object.members[k][1] = key

MemberOf(object, key) ==
  object.members[CHOOSE k \in 1..Len(object.members) : object.members[k][1] = key][2]

NotJson(value) == ~value.wellFormed

LacksKey(value) ==
  value.wellFormed /\ \E k \in 1..4 : ~HasMember(value.document, GradientKeys[k])

\* the arrays standing at low and high of every key that is there
EndpointsOf(document) ==
  {IF HasMember(MemberOf(document, GradientKeys[k]), side)
     THEN MemberOf(MemberOf(document, GradientKeys[k]), side)
     ELSE Undefined :
     k \in {n \in 1..4 : HasMember(document, GradientKeys[n])}, side \in {"low", "high"}}

WrongLength(value) ==
  /\ value.wellFormed
  /\ value.document.type = "object"
  /\ \E end \in EndpointsOf(value.document) : end.type # "array" \/ Len(end.items) # 4

NonNumeric(value) ==
  /\ value.wellFormed
  /\ value.document.type = "object"
  /\ \E end \in EndpointsOf(value.document) :
       end.type = "array" /\ \E k \in 1..Len(end.items) : end.items[k].type # "number"

InvalidPayload(value) ==
  NotJson(value) \/ LacksKey(value) \/ WrongLength(value) \/ NonNumeric(value)

----------------------------------------------------------------------------
(* C20.  parseAsGradients.parse returns null, so that the default gradients   *)
(* are used, and never throws, for every payload that is not valid JSON,      *)
(* lacks one of the keys xBelow, xAbove, yBelow, yAbove, has a low or high     *)
(* that is not an array of exactly 4 elements, or has a non-numeric element.  *)
C20_InvalidPayloadGivesNull ==
  (Parsed /\ InvalidPayload(calls[1].value)) =>
    /\ ~calls[1].threw
    /\ calls[1].returned = "null"
    /\ gradients = DEFAULT_GRADIENTS

\* a payload whose only fault is a string among the numbers of yAbove.high
C20_Witness ==
  /\ Parsed
  /\ NonNumeric(calls[1].value)
  /\ ~LacksKey(calls[1].value)
  /\ ~WrongLength(calls[1].value)
  /\ HasMember(calls[1].value.document, "yAbove")
  /\ \E k \in 1..4 :
       MemberOf(MemberOf(calls[1].value.document, "yAbove"), "high").items[k].type = "string"
  /\ calls[1].returned = "null"

----------------------------------------------------------------------------
(* C21.  For every valid gradient state g (four keys, each with low and high  *)
(* arrays of 4 numbers), parse(serialize(g)) is accepted and is structurally  *)
(* equal to g.                                                                *)
C21_RoundTrip ==
  Parsed =>
    \A g \in GradientChoices \cup SliderGradients :
      calls[1].value = serialize(g) =>
        /\ ~calls[1].threw
        /\ calls[1].returned = "parsed"
        /\ AsGradientState(calls[1].value.document) = g
        /\ gradients = g

\* the page is opened with what was written for a state edited with a
\* slider, which differs from the defaults
C21_Witness ==
  /\ Parsed
  /\ \E g \in SliderGradients :
       /\ g \notin GradientChoices
       /\ calls[1].value = serialize(g)
       /\ gradients = g
  /\ gradients # DEFAULT_GRADIENTS
  /\ calls[1].returned = "parsed"

----------------------------------------------------------------------------
(* The cutoff percentage and its query value.  useQueryState keeps the state  *)
(* and writes parseAsInteger.serialize(state), Math.round(v).toFixed(), to    *)
(* the URL; a page load reads the state back with parseInt.  The text field   *)
(* can yield any number, so in this specification zCutoffPercent is held in   *)
(* units like every other number; the pipeline specification only meets      *)
(* whole percentages.  The query value last written is noted in calls; a text *)
(* is numeric with digits <<m, e>> for m / 10^e, or not numeric.              *)

SliderStops == {0, 37, 100}

\* what may be typed into the text field
TextInputs ==
  {[numeric |-> FALSE, digits |-> <<0, 0>>]}
    \cup {[numeric |-> TRUE, digits |-> d] :
            d \in {<<50, 0>>, <<337, 1>>, <<995, 1>>, <<1004, 1>>, <<4, 1>>,
                   <<0 - 5, 0>>, <<250, 0>>}}

\* parseFloat(text): the number, or NaN
parseFloat(text) ==
  IF text.numeric THEN [nan |-> FALSE, value |-> ParseNumber(text.digits)]
  ELSE [nan |-> TRUE, value |-> 0]

\* Math.max(0, Math.min(100, value))
ClampPercent(value) ==
  IF value > 100 * Unit THEN 100 * Unit ELSE IF value < 0 THEN 0 ELSE value

\* parseAsInteger.serialize
serializeInteger(v) == [numeric |-> TRUE, digits |-> <<MathRound(v), 0>>]

\* parseAsInteger.parse: parseInt reads the integer part of a numeric text
parseInteger(text) ==
  IF text.numeric
    THEN [null |-> FALSE,
          value |-> (IF text.digits[1] < 0
                       THEN 0 - ((0 - text.digits[1]) \div (10 ^ text.digits[2]))
                       ELSE text.digits[1] \div (10 ^ text.digits[2])) * Unit]
    ELSE [null |-> TRUE, value |-> 0]

InitCutoff ==
  /\ X = << >>
  /\ Y = << >>
  /\ Z = << >>
  /\ colorPool = << >>
  /\ colorPoolIndex = 0
  /\ calls = << >>
  /\ edgeLog = << >>
  /\ nextObject = 1
  /\ hoverInfo = NoInfo
  /\ pinnedInfo = NoInfo
  /\ zCutoffPercent = DefaultZCutoffPercent * Unit
  /\ gradients = DEFAULT_GRADIENTS

\* setZCutoffPercent(value): the state, and the query value written for it
setZCutoffPercent(value, from) ==
  /\ zCutoffPercent' = value
  /\ calls' = Append(calls, [fn |-> from, state |-> value,
                             query |-> serializeInteger(value)])

\* variant: the submitted value is not clamped
submitUnclamped(value, from) == setZCutoffPercent(value, from)

\* what handleZCutoffSubmit does with a number
submitClamped(value, from) == setZCutoffPercent(ClampPercent(value), from)

\* the range input moves to a stop
MoveSlider(stop) ==
  /\ Len(calls) < MaxCalls
  /\ setZCutoffPercent(parseFloat([numeric |-> TRUE, digits |-> <<stop, 0>>]).value,
                       "slider")
  /\ UNCHANGED <<hoverInfo, pinnedInfo, X, Y, Z, colorPool, colorPoolIndex, edgeLog, nextObject, gradients>>

\* the text field is submitted with input typed into it
handleZCutoffSubmit(zCutoffInput) ==
  /\ Len(calls) < MaxCalls
  /\ IF parseFloat(zCutoffInput).nan
       THEN UNCHANGED <<zCutoffPercent, calls>>
       ELSE submitClamped(parseFloat(zCutoffInput).value, "submit")
  /\ UNCHANGED <<hoverInfo, pinnedInfo, X, Y, Z, colorPool, colorPoolIndex, edgeLog, nextObject, gradients>>

\* the page is loaded again from the URL it wrote
LoadPersisted ==
  /\ calls # << >>
  /\ Len(calls) < MaxCalls
  /\ calls[Len(calls)].fn # "load"
  /\ zCutoffPercent' = IF parseInteger(calls[Len(calls)].query).null
                         THEN DefaultZCutoffPercent * Unit
                         ELSE parseInteger(calls[Len(calls)].query).value
  /\ calls' = Append(calls, [fn |-> "load",
                             state |-> zCutoffPercent',
                             query |-> calls[Len(calls)].query])
  /\ UNCHANGED <<hoverInfo, pinnedInfo, X, Y, Z, colorPool, colorPoolIndex, edgeLog, nextObject, gradients>>

NextCutoff ==
  \/ \E stop \in SliderStops : MoveSlider(stop)
  \/ \E zCutoffInput \in TextInputs : handleZCutoffSubmit(zCutoffInput)
  \/ LoadPersisted

SpecCutoff == InitCutoff /\ [][NextCutoff]_vars

\* the query value the URL holds
Persisted == calls[Len(calls)].query

----------------------------------------------------------------------------
(* C22.  After any sequence of slider moves, text submissions and loads of    *)
(* the persisted value, the persisted cutoff percentage is an integer in      *)
(* 0..100.                                                                    *)
C22_PersistedWholePercent ==
  calls # << >> =>
    /\ Persisted.numeric
    /\ Persisted.digits[2] = 0
    /\ Persisted.digits[1] \in 0..100

\* 250 was submitted, then 33.7, and the page was loaded from the URL
C22_Witness ==
  /\ Len(calls) = 3
  /\ calls[1].fn = "submit"
  /\ calls[1].state = 100 * Unit
  /\ calls[2].fn = "submit"
  /\ calls[2].state # 34 * Unit
  /\ calls[2].query.digits = <<34, 0>>
  /\ calls[3].fn = "load"
  /\ zCutoffPercent = 34 * Unit

----------------------------------------------------------------------------
(* Picking: the hover points, hover and pin *)

\* variant: the crossing point's Z is interpolated like its X and Y
crossingVertexInterpolated(j0, i0, j1, i1, zCutoff) ==
  Then(FDiv(FSub(zCutoff, Z[j0][i0]), FSub(Z[j1][i1], Z[j0][i0])), LAMBDA t :
    [position |-> << FAdd(X[j0][i0], FMul(FSub(X[j1][i1], X[j0][i0]), t)),
                     FAdd(Y[j0][i0], FMul(FSub(Y[j1][i1], Y[j0][i0]), t)),
                     FAdd(Z[j0][i0], FMul(FSub(Z[j1][i1], Z[j0][i0]), t)) >>])

\* the point pushed for an edge that crosses the cutoff (1-based indices)
crossingVertex(j0, i0, j1, i1, zCutoff) ==
  Then(FDiv(FSub(zCutoff, Z[j0][i0]), FSub(Z[j1][i1], Z[j0][i0])), LAMBDA t :
    [position |-> << FAdd(X[j0][i0], FMul(FSub(X[j1][i1], X[j0][i0]), t)),
                     FAdd(Y[j0][i0], FMul(FSub(Y[j1][i1], Y[j0][i0]), t)),
                     zCutoff >>])

\* what the edge from (j0, i0) to (j1, i1) adds, if it is there
crossingOf(there, j0, i0, j1, i1, zCutoff) ==
  IF there /\ (Z[j0][i0] > zCutoff) # (Z[j1][i1] > zCutoff)
    THEN << crossingVertex(j0, i0, j1, i1, zCutoff) >>
    ELSE << >>

\* one turn of the inner loop, j and i 0-based as in the code
hoverVerticesAt(j, i, zCutoff) ==
  << [position |-> << X[j + 1][i + 1], Y[j + 1][i + 1], Z[j + 1][i + 1] >>] >>
    \o crossingOf(i < Len(X[1]) - 1, j + 1, i + 1, j + 1, i + 2, zCutoff)
    \o crossingOf(j < Len(X) - 1, j + 1, i + 1, j + 2, i + 1, zCutoff)

RECURSIVE hoverVerticesFrom(_, _)
\* the loops from the n-th vertex on, in row-major order
hoverVerticesFrom(n, zCutoff) ==
  IF n >= Len(X) * Len(X[1]) THEN << >>
  ELSE hoverVerticesAt(n \div Len(X[1]), n % Len(X[1]), zCutoff)
         \o hoverVerticesFrom(n + 1, zCutoff)

\* the hoverVertices memo on the current mesh and cutoff
hoverVertices == hoverVerticesFrom(0, zCutoffOf(Z, zCutoffPercent))

\* where the pointer is when it is over the k-th point, and over none
PointerAt(k) == [x |-> 40 * k, y |-> 25 * k]

PointerAway == [x |-> 5, y |-> 5]

\* variant: the hovered point is shown before the pinned one
shownInfoHoverFirst == IF hoverInfo # NoInfo THEN hoverInfo ELSE pinnedInfo

\* pinnedInfo ?? hoverInfo: what the marker and the tooltip show
shownInfo == IF pinnedInfo # NoInfo THEN pinnedInfo ELSE hoverInfo

InitPick ==
  /\ \E rows \in 1..MaxRows, cols \in 1..MaxCols, shape \in MeshShapes :
       /\ Z = [j \in 1..rows |-> [i \in 1..cols |-> HeightAt(shape, j - 1, i - 1)]]
       /\ X = [j \in 1..rows |-> [i \in 1..cols |-> (i - 1) * Unit]]
       /\ Y = [j \in 1..rows |-> [i \in 1..cols |-> (j - 1) * Unit]]
  /\ zCutoffPercent \in PercentChoices \cup {DefaultZCutoffPercent}
  /\ gradients = DEFAULT_GRADIENTS
  /\ colorPool = << >>
  /\ colorPoolIndex = 0
  /\ calls = << >>
  /\ edgeLog = << >>
  /\ nextObject = 1
  /\ hoverInfo = NoInfo
  /\ pinnedInfo = NoInfo

\* first render: the hoverVertices memo runs; its result is noted as calls[1]
RenderPoints ==
  /\ calls = << >>
  /\ calls' = << [fn |-> "render", points |-> hoverVertices] >>
  /\ UNCHANGED <<hoverInfo, pinnedInfo, X, Y, Z, colorPool, colorPoolIndex, edgeLog,
                 nextObject, zCutoffPercent, gradients>>

\* the data of the mesh-vertices layer
Rendered == calls # << >> /\ calls[1].fn = "render"

LayerData == calls[1].points

PointCount == IF calls = << >> THEN 0 ELSE Len(LayerData)

\* the latest pointer event is noted as calls[2]
NoteEvent(fn, at, object) ==
  /\ calls' = << calls[1], [fn |-> fn, x |-> at.x, y |-> at.y, object |-> object] >>
  /\ UNCHANGED <<X, Y, Z, colorPool, colorPoolIndex, edgeLog, nextObject,
                 zCutoffPercent, gradients>>

\* onHover with a picked point
HoverPoint(k) ==
  /\ Rendered
  /\ hoverInfo' = [x |-> PointerAt(k).x, y |-> PointerAt(k).y, object |-> LayerData[k]]
  /\ UNCHANGED pinnedInfo
  /\ NoteEvent("hover", PointerAt(k), LayerData[k])

\* onHover with nothing picked
HoverLeave ==
  /\ Rendered
  /\ hoverInfo' = NoInfo
  /\ UNCHANGED pinnedInfo
  /\ NoteEvent("leave", PointerAway, NoInfo.object)

\* a click on a point: the layer's onClick pins it, and DeckGL's onClick,
\* given an object, does nothing
ClickPoint(k) ==
  /\ Rendered
  /\ pinnedInfo' = [x |-> PointerAt(k).x, y |-> PointerAt(k).y, object |-> LayerData[k]]
  /\ UNCHANGED hoverInfo
  /\ NoteEvent("clickPoint", PointerAt(k), LayerData[k])

\* a click with nothing picked: DeckGL's onClick clears the pin
ClickEmpty ==
  /\ Rendered
  /\ pinnedInfo' = NoInfo
  /\ UNCHANGED hoverInfo
  /\ NoteEvent("clickEmpty", PointerAway, NoInfo.object)

NextPick ==
  \/ RenderPoints
  \/ \E k \in 1..PointCount : HoverPoint(k)
  \/ HoverLeave
  \/ \E k \in 1..PointCount : ClickPoint(k)
  \/ ClickEmpty

SpecPick == InitPick /\ [][NextPick]_vars

\* the latest pointer event, once there is one
Pointed == Len(calls) = 2

----------------------------------------------------------------------------
(* C23.  After a click on a point the pin stays set, and the marker and the   *)
(* tooltip keep showing the pinned point and not the hovered one, through     *)
(* every hover and hover-leave event; a click on empty space clears the pin   *)
(* and never sets one.                                                        *)
C23_PinHoldsUntilEmptyClick ==
  [][Len(calls') = 2 =>
       /\ calls'[2].fn \in {"hover", "leave"} =>
            /\ pinnedInfo' = pinnedInfo
            /\ pinnedInfo # NoInfo => shownInfo' = pinnedInfo
       /\ calls'[2].fn = "clickEmpty" => pinnedInfo' = NoInfo
       /\ calls'[2].fn = "clickPoint" =>
            /\ pinnedInfo'.object = calls'[2].object
            /\ pinnedInfo' # NoInfo
            /\ shownInfo' = pinnedInfo']_vars

\* one point is pinned and the pointer has moved on to hover another
C23_Witness ==
  /\ Pointed
  /\ calls[2].fn = "hover"
  /\ pinnedInfo # NoInfo
  /\ hoverInfo # NoInfo
  /\ hoverInfo.object # pinnedInfo.object
  /\ shownInfo = pinnedInfo

----------------------------------------------------------------------------
(* C28.  hoverVertices holds every mesh vertex once and one more point for    *)
(* each edge that straddles the cutoff (one end strictly above, the other     *)
(* not), rows*cols + S points in all, and each of those points has Z equal    *)
(* to the cutoff exactly.                                                     *)
CurrentCutoff == zCutoffOf(Z, zCutoffPercent)

GridVertices == {<<j, i>> : j \in 0..(Rows - 1), i \in 0..(Cols - 1)}

\* the point due for a straddling edge: X and Y where the edge meets the
\* cutoff, Z the cutoff itself
SyntheticPoint(e) ==
  << Crossing(PositionAt(e[1]), PositionAt(e[2]), CurrentCutoff)[1],
     Crossing(PositionAt(e[1]), PositionAt(e[2]), CurrentCutoff)[2],
     CurrentCutoff >>

\* how often a position occurs among the points
TimesPicked(points, position) ==
  Cardinality({k \in 1..Len(points) : points[k].position = position})

TimesDue(position) ==
  Cardinality({v \in GridVertices : PositionAt(v) = position})
    + Cardinality({e \in StraddlingEdges(CurrentCutoff) : SyntheticPoint(e) = position})

VerticesAndCrossings(points) ==
  /\ Len(points) = Rows * Cols + Cardinality(StraddlingEdges(CurrentCutoff))
  /\ \A v \in GridVertices : TimesPicked(points, PositionAt(v)) = TimesDue(PositionAt(v))
  /\ \A e \in StraddlingEdges(CurrentCutoff) :
       TimesPicked(points, SyntheticPoint(e)) = TimesDue(SyntheticPoint(e))
  /\ \A k \in 1..Len(points) : TimesDue(points[k].position) > 0

C28_PickPointsAreVerticesAndCrossings ==
  (Rendered /\ ~Pointed) => VerticesAndCrossings(LayerData)

\* a grid with an edge whose interpolated crossing height is not the
\* cutoff, and with its points just computed
C28_Witness ==
  /\ Rendered
  /\ ~Pointed
  /\ \E e \in StraddlingEdges(CurrentCutoff) :
       /\ Crossing(PositionAt(e[1]), PositionAt(e[2]), CurrentCutoff)[3] # CurrentCutoff
       /\ TimesPicked(LayerData, SyntheticPoint(e)) = 1
  /\ Len(LayerData) > Rows * Cols

----------------------------------------------------------------------------
(* The highlight subset.  The segment buffer carries, for each segment, the   *)
(* label of the grid line it lies on: "row-j" for an edge along row j,        *)
(* "col-i" for an edge along column i.  A label is held as <<"row", j>> or    *)
(* <<"col", i>>.  The highlightBuffers memo extracts the segments whose       *)
(* label is selected.                                                         *)

\* the label of the line a logged edge lies on
lineKeyOf(edge) ==
  IF edge.direction = "x" THEN <<"row", edge.from[1]>> ELSE <<"col", edge.from[2]>>

\* how many segments the pipeline wrote for a logged edge
segmentsOf(edge) ==
  IF (ZAt(edge.from) > zCutoffOf(Z, zCutoffPercent)) # (ZAt(edge.to) > zCutoffOf(Z, zCutoffPercent))
    THEN 2 * GRADIENT_SUBDIVISIONS
    ELSE GRADIENT_SUBDIVISIONS

RECURSIVE lineKeysFrom(_)
\* the label lane from the k-th logged edge on
lineKeysFrom(k) ==
  IF k > Len(edgeLog) THEN << >>
  ELSE [m \in 1..segmentsOf(edgeLog[k]) |-> lineKeyOf(edgeLog[k])] \o lineKeysFrom(k + 1)

\* the buffer handle of the latest run: parallel lanes and their count
mainBufferOf(run) ==
  [sourcePositions |-> [m \in 1..Len(run.segments) |-> run.segments[m].sourcePosition],
   targetPositions |-> [m \in 1..Len(run.segments) |-> run.segments[m].targetPosition],
   colors |-> run.seen,
   lineKeys |-> lineKeysFrom(1),
   count |-> Len(run.segments)]

\* no subset: the highlight layer is left out
NoSubset ==
  [empty |-> TRUE, count |-> 0, sourcePositions |-> << >>, targetPositions |-> << >>,
   colors |-> << >>]

\* the populated slots whose label is selected, in order
RECURSIVE matchingSlots(_, _, _)
matchingSlots(mainBuffer, selectedLabels, m) ==
  IF m > mainBuffer.count THEN << >>
  ELSE (IF mainBuffer.lineKeys[m] \in selectedLabels THEN << m >> ELSE << >>)
         \o matchingSlots(mainBuffer, selectedLabels, m + 1)

\* the lanes of the chosen slots, copied into lanes of just that size
copySlots(mainBuffer, slots) ==
  [empty |-> FALSE,
   count |-> Len(slots),
   sourcePositions |-> [n \in 1..Len(slots) |-> mainBuffer.sourcePositions[slots[n]]],
   targetPositions |-> [n \in 1..Len(slots) |-> mainBuffer.targetPositions[slots[n]]],
   colors |-> [n \in 1..Len(slots) |-> mainBuffer.colors[slots[n]]]]

\* variant: a selection that matches nothing gives a buffer of length zero
extractSubsetZeroLength(mainBuffer, selectedLabels) ==
  Then(matchingSlots(mainBuffer, selectedLabels, 1), LAMBDA slots :
    copySlots(mainBuffer, slots))

extractSubset(mainBuffer, selectedLabels) ==
  IF selectedLabels = {} THEN NoSubset
  ELSE Then(matchingSlots(mainBuffer, selectedLabels, 1), LAMBDA slots :
         IF slots = << >> THEN NoSubset ELSE copySlots(mainBuffer, slots))

\* labels that can be selected: those of the largest grid, and one row and
\* one column past it
LabelChoices ==
  {<<"row", j>> : j \in 0..MaxRows} \cup {<<"col", i>> : i \in 0..MaxCols}

\* the highlightBuffers memo runs on a selection
ExtractSubset(selectedLabels) ==
  /\ Len(calls) = 1
  /\ calls' = Then(mainBufferOf(calls[1]), LAMBDA mainBuffer :
                Append(calls, [fn |-> "extractSubset",
                               selectedLabels |-> selectedLabels,
                               lineKeys |-> mainBuffer.lineKeys,
                               count |-> mainBuffer.count,
                               result |-> extractSubset(mainBuffer, selectedLabels)]))
  /\ UNCHANGED <<hoverInfo, pinnedInfo, X, Y, Z, colorPool, colorPoolIndex, edgeLog,
                 nextObject, zCutoffPercent, gradients>>

NextHighlight ==
  \/ Mount
  \/ \E selectedLabels \in SUBSET LabelChoices : ExtractSubset(selectedLabels)

SpecHighlight == Init /\ [][NextHighlight]_vars

----------------------------------------------------------------------------
(* What a subset is due *)

Extracted == Len(calls) = 2 /\ calls[2].fn = "extractSubset"

Selected == calls[2].selectedLabels

\* the main buffer's label lane and count
Main == [lineKeys |-> calls[2].lineKeys, count |-> calls[2].count]

Subset == calls[2].result

\* the labels of the grid's rows and columns
GridLabels ==
  {<<"row", j>> : j \in 0..(Rows - 1)} \cup {<<"col", i>> : i \in 0..(Cols - 1)}

IsSelected(m) == calls[2].lineKeys[m] \in Selected

\* the selected slots of the main buffer, in order
SelectedSlots == SelectSeq([m \in 1..calls[2].count |-> m], IsSelected)

\* the subset is a copy, in order, of exactly the selected slots
CopiesSelected ==
  /\ Subset.count = Len(SelectedSlots)
  /\ Len(Subset.sourcePositions) = Subset.count
  /\ Len(Subset.targetPositions) = Subset.count
  /\ Len(Subset.colors) = Subset.count
  /\ \A n \in 1..Subset.count :
       /\ Subset.sourcePositions[n] = calls[1].segments[SelectedSlots[n]].sourcePosition
       /\ Subset.targetPositions[n] = calls[1].segments[SelectedSlots[n]].targetPosition
       /\ Subset.colors[n] = calls[1].seen[SelectedSlots[n]]

----------------------------------------------------------------------------
(* C24.  extractSubset copies exactly the populated segments whose label is   *)
(* selected; with an empty selection, or one matching nothing, it returns no  *)
(* subset (not a buffer of length zero); and with a selection holding every   *)
(* row and column label the subset's count is the main buffer's count.  On a  *)
(* grid without edges every selection matches nothing, so no subset with a    *)
(* count is returned, and this is stated to be refuted.                       *)
C24_SubsetOfSelected ==
  Extracted =>
    /\ Subset.empty <=> SelectedSlots = << >>
    /\ ~Subset.empty => CopiesSelected
    /\ GridLabels \subseteq Selected => (~Subset.empty /\ Subset.count = Main.count)

(* C24, amended.  As above, the last part for a main buffer that holds at     *)
(* least one segment.                                                         *)
C24_SubsetOfSelectedNonEmptyMain ==
  Extracted =>
    /\ Subset.empty <=> SelectedSlots = << >>
    /\ ~Subset.empty => CopiesSelected
    /\ (GridLabels \subseteq Selected /\ Main.count > 0) =>
         (~Subset.empty /\ Subset.count = Main.count)

\* one row and one column of a 2 x 2 grid are selected, with a label that
\* matches nothing: a proper part of the buffer is copied
C24_Witness ==
  /\ Extracted
  /\ Rows >= 2
  /\ Cols >= 2
  /\ Selected = {<<"row", 1>>, <<"col", 0>>, <<"col", MaxCols>>}
  /\ ~Subset.empty
  /\ Subset.count > 0
  /\ Subset.count < Main.count
  /\ Subset.sourcePositions[1] # calls[1].segments[1].sourcePosition

----------------------------------------------------------------------------
(* The colour of a sub-segment from the mean Z of its own endpoints *)

\* the mean of the Z coordinates of two positions
MeanZ(p1, p2) == FDiv(FAdd(p1[3], p2[3]), 2 * Unit)

\* the place of a height in the grid's Z range
PlaceInRange(z) == FDiv(FSub(z, zMinOf(Z)), FSub(zMaxOf(Z), zMinOf(Z)))

\* segments off+1 .. off+N carry the gradient's colour at the place of the
\* mean Z of their own endpoints
ColouredAtOwnMidpoint(off, gradient) ==
  \A m \in (off + 1)..(off + N) :
    /\ m <= Len(Last.segments)
    /\ Last.seen[m] =
         ColourAt(gradient,
                  PlaceInRange(MeanZ(Last.segments[m].sourcePosition,
                                     Last.segments[m].targetPosition)))

----------------------------------------------------------------------------
(* C25.  On a grid whose Z range is not flat, the colour of every emitted     *)
(* sub-segment is hslToRgb of its gradient interpolated at                    *)
(* t = (midZ - zMin) / (zMax - zMin), midZ being the mean of the Z of that    *)
(* sub-segment's own two endpoints, not of the enclosing edge's.              *)
C25_ColouredAtOwnMidpoint ==
  (HasRun /\ ~FlatRange) =>
    /\ AllAccounted
    /\ \A k \in 1..Len(edgeLog) :
         LET direction == edgeLog[k].direction
             sourceSide == Above(LoggedFrom(k)[3])
             targetSide == Above(LoggedTo(k)[3])
         IN /\ ColouredAtOwnMidpoint(OffsetOf(k), GradientFor(direction, sourceSide))
            /\ sourceSide # targetSide =>
                 ColouredAtOwnMidpoint(OffsetOf(k) + N, GradientFor(direction, targetSide))

\* a run with an edge on one side of the cutoff whose ends differ in Z: its
\* first and last sub-segments are coloured apart, and neither has the colour
\* of the edge's own midpoint
C25_Witness ==
  /\ HasRun
  /\ ~FlatRange
  /\ \E k \in 1..Len(edgeLog) :
       /\ ~LoggedStraddles(k)
       /\ LoggedFrom(k)[3] # LoggedTo(k)[3]
       /\ Len(Last.segments) >= OffsetOf(k) + N
       /\ Last.seen[OffsetOf(k) + 1] # Last.seen[OffsetOf(k) + N]
       /\ LET atEdgeMidpoint ==
                ColourAt(GradientFor(edgeLog[k].direction, Above(LoggedFrom(k)[3])),
                         PlaceInRange(MeanZ(LoggedFrom(k), LoggedTo(k))))
          IN /\ Last.seen[OffsetOf(k) + 1] # atEdgeMidpoint
             /\ Last.seen[OffsetOf(k) + N] # atEdgeMidpoint

----------------------------------------------------------------------------
(* The chain of sub-segments of an edge *)

\* how many segments the k-th logged edge takes
TakenBy(k) == IF LoggedStraddles(k) THEN 2 * N ELSE N

\* the first sub-segment of the k-th logged edge starts at its source vertex
StartsAtSource(k) ==
  Last.segments[OffsetOf(k) + 1].sourcePosition = LoggedFrom(k)

\* each sub-segment of the k-th logged edge ends where the next one starts
Joined(k) ==
  \A m \in (OffsetOf(k) + 1)..(OffsetOf(k) + TakenBy(k) - 1) :
    Last.segments[m].targetPosition = Last.segments[m + 1].sourcePosition

\* the last sub-segment of the k-th logged edge ends at its target vertex
EndsAtTarget(k) ==
  Last.segments[OffsetOf(k) + TakenBy(k)].targetPosition = LoggedTo(k)

----------------------------------------------------------------------------
(* C26.  The sub-segments of one edge form a connected chain from its source  *)
(* vertex to its target vertex: the first starts at the source, each one's    *)
(* target is the next one's source, across the crossing of a split edge too,  *)
(* and the last ends at the target.  The far end of a piece is interpolated   *)
(* at t = 1, which can land off the vertex, so this is stated to be refuted.  *)
C26_ConnectedChain ==
  HasRun =>
    /\ AllAccounted
    /\ \A k \in 1..Len(edgeLog) : StartsAtSource(k) /\ Joined(k) /\ EndsAtTarget(k)

----------------------------------------------------------------------------
(* C27.  In every state 0 <= colorPoolIndex <= colorPool.length, and within   *)
(* one invocation the buffers acquired are pairwise distinct, the k-th        *)
(* acquisition (counting from 0) returning pool slot k: the segments of one   *)
(* result hold slots 0, 1, 2, ... in order, all inside the pool, the index    *)
(* ends at their count, and no two of them share colour storage.              *)
C27_DistinctSlotsPerRun ==
  /\ colorPoolIndex >= 0
  /\ colorPoolIndex <= Len(colorPool)
  /\ HasRun =>
       /\ colorPoolIndex = Len(Last.segments)
       /\ \A m \in 1..Len(Last.segments) :
            /\ Last.segments[m].color = m - 1
            /\ Last.segments[m].color < Len(colorPool)
       /\ \A a, b \in 1..Len(Last.segments) :
            a # b => Last.segments[a].color # Last.segments[b].color

\* a later run that took fewer buffers than the pool holds: the index stops
\* inside the pool, and the run's segments hold its first slots
C27_Witness ==
  /\ Len(calls) >= 2
  /\ colorPoolIndex > N
  /\ colorPoolIndex < Len(colorPool)
  /\ Last.segments[colorPoolIndex].color = colorPoolIndex - 1
  /\ Last.segments[1].color = 0

----------------------------------------------------------------------------
(* The gradient editor: a slider's onChange calls updateGradientColor, which  *)
(* hands setGradients an updater; React calls it with the current state.      *)

\* what the updater leaves in the state object it was handed.  The endpoint
\* array of prev and the array newColor are two cells; newColor starts as a
\* copy ([...prev[key][end]]) and the channel is written into newColor.
prevAfterUpdate(prev, key, end, index, value) ==
  LET cells == [prevColor |-> prev[key][end], newColor |-> prev[key][end]]
      written == [cells EXCEPT !.newColor[index + 1] = value]
  IN [prev EXCEPT ![key] = [prev[key] EXCEPT ![end] = written.prevColor]]

InitEdit ==
  /\ X = << >>
  /\ Y = << >>
  /\ Z = << >>
  /\ colorPool = << >>
  /\ colorPoolIndex = 0
  /\ calls = << >>
  /\ edgeLog = << >>
  /\ nextObject = 1
  /\ hoverInfo = NoInfo
  /\ pinnedInfo = NoInfo
  /\ zCutoffPercent = DefaultZCutoffPercent
  /\ gradients \in GradientChoices \cup SliderGradients

\* the slider of channel index of one endpoint is moved to a position
MoveGradientSlider(key, end, index, position) ==
  /\ calls = << >>
  /\ LET value == SliderValue(position, HSL_CHANNELS[index + 1])
     IN /\ gradients' = updateGradientColor(gradients, key, end, index, value)
        /\ calls' = << [fn |-> "updateGradientColor", key |-> key, end |-> end,
                        index |-> index, value |-> value, prev |-> gradients,
                        prevAfter |-> prevAfterUpdate(gradients, key, end, index, value)] >>
  /\ UNCHANGED <<hoverInfo, pinnedInfo, X, Y, Z, colorPool, colorPoolIndex, edgeLog,
                 nextObject, zCutoffPercent>>

NextEdit ==
  \E k \in 1..4, end \in {"low", "high"}, index \in 0..2 :
    \E position \in SliderPositions(HSL_CHANNELS[index + 1]) :
      MoveGradientSlider(GradientKeys[k], end, index, position)

SpecEdit == InitEdit /\ [][NextEdit]_vars

----------------------------------------------------------------------------
(* What an edit may touch *)

Edited == calls # << >> /\ calls[1].fn = "updateGradientColor"

Edit == calls[1]

OtherEnd(end) == IF end = "low" THEN "high" ELSE "low"

----------------------------------------------------------------------------
(* C29.  updateGradientColor(key, end, index, value) changes only channel     *)
(* index of endpoint end of gradient key, to value: the other three channels  *)
(* of that endpoint, the other endpoint of that gradient and the three other  *)
(* gradients are as before, and the previous state object is not mutated.     *)
C29_EditTouchesOneChannel ==
  Edited =>
    /\ gradients[Edit.key][Edit.end][Edit.index + 1] = Edit.value
    /\ \A i \in 1..4 :
         i # Edit.index + 1 =>
           gradients[Edit.key][Edit.end][i] = Edit.prev[Edit.key][Edit.end][i]
    /\ gradients[Edit.key][OtherEnd(Edit.end)] = Edit.prev[Edit.key][OtherEnd(Edit.end)]
    /\ \A k \in 1..4 :
         GradientKeys[k] # Edit.key => gradients[GradientKeys[k]] = Edit.prev[GradientKeys[k]]
    /\ Edit.prevAfter = Edit.prev

\* the saturation of the high end of yAbove is moved to a new value on a
\* state that an earlier slider move had already changed
C29_Witness ==
  /\ Edited
  /\ Edit.key = "yAbove"
  /\ Edit.end = "high"
  /\ Edit.index = 1
  /\ Edit.prev \notin GradientChoices
  /\ Edit.prev["yAbove"]["high"][2] # Edit.value
  /\ gradients["yAbove"]["high"][2] = Edit.value
  /\ gradients # Edit.prev

----------------------------------------------------------------------------
(* The RGB-to-HSL converters of utils.ts.  Each writes hue, saturation and    *)
(* lightness into out[0..2].                                                  *)

Max3(a, b, c) == IF a >= b THEN (IF a >= c THEN a ELSE c) ELSE (IF b >= c THEN b ELSE c)

Min3(a, b, c) == IF a <= b THEN (IF a <= c THEN a ELSE c) ELSE (IF b <= c THEN b ELSE c)

\* the three writes of rgbToHSL, from the normalised channels
rgbToHSLNormalised(r, g, b, out) ==
  LET l == Max3(r, g, b)
      s == FSub(l, Min3(r, g, b))
      h == IF s # 0
             THEN (IF l = r THEN FDiv(FSub(g, b), s)
                   ELSE IF l = g THEN FAdd(2 * Unit, FDiv(FSub(b, r), s))
                   ELSE FAdd(4 * Unit, FDiv(FSub(r, g), s)))
             ELSE 0
      twoLMinusS == FSub(FMul(2 * Unit, l), s)
  IN [out EXCEPT
        ![1] = IF FMul(60 * Unit, h) < 0
                 THEN FAdd(FMul(60 * Unit, h), 360 * Unit)
                 ELSE FMul(60 * Unit, h),
        ![2] = FMul(100 * Unit,
                    IF s # 0
                      THEN (IF l <= OneHalf
                              THEN FDiv(s, twoLMinusS)
                              ELSE FDiv(s, FSub(2 * Unit, twoLMinusS)))
                      ELSE 0),
        ![3] = FDiv(FMul(100 * Unit, twoLMinusS), 2 * Unit)]

rgbToHSL(r, g, b, out) ==
  rgbToHSLNormalised(FDiv(r * Unit, 255 * Unit), FDiv(g * Unit, 255 * Unit),
                     FDiv(b * Unit, 255 * Unit), out)

\* the three writes of rgb2hslFast, from the normalised channels
rgb2hslFastNormalised(r, g, b, out) ==
  LET max == IF r > g THEN (IF r > b THEN r ELSE b) ELSE (IF g > b THEN g ELSE b)
      min == IF r < g THEN (IF r < b THEN r ELSE b) ELSE (IF g < b THEN g ELSE b)
      c == FSub(max, min)
      lum == FMul(FAdd(max, min), OneHalf)
      hue == IF c # 0
               THEN FMul(IF max = r
                           THEN FAdd(FDiv(FSub(g, b), c), IF g < b THEN 6 * Unit ELSE 0)
                         ELSE IF max = g
                           THEN FAdd(FDiv(FSub(b, r), c), 2 * Unit)
                         ELSE FAdd(FDiv(FSub(r, g), c), 4 * Unit),
                         60 * Unit)
               ELSE 0
      sat == IF c # 0
               THEN FDiv(c, FSub(Unit, Abs(FSub(FMul(2 * Unit, lum), Unit))))
               ELSE 0
  IN [out EXCEPT ![1] = hue, ![2] = FMul(sat, 100 * Unit), ![3] = FMul(lum, 100 * Unit)]

rgb2hslFast(r, g, b, out) ==
  rgb2hslFastNormalised(FDiv(r * Unit, 255 * Unit), FDiv(g * Unit, 255 * Unit),
                        FDiv(b * Unit, 255 * Unit), out)

\* the 8-bit channel values tried
ByteLevels == {(255 * k) \div LevelSteps : k \in 0..LevelSteps}

InitHsl ==
  /\ X = << >>
  /\ Y = << >>
  /\ Z = << >>
  /\ colorPool = << >>
  /\ colorPoolIndex = 0
  /\ calls = << >>
  /\ edgeLog = << >>
  /\ nextObject = 1
  /\ hoverInfo = NoInfo
  /\ pinnedInfo = NoInfo
  /\ zCutoffPercent = DefaultZCutoffPercent
  /\ gradients = DEFAULT_GRADIENTS

\* both converters are called on one triple, each with its own out array
ConvertRgb(r, g, b) ==
  /\ calls = << >>
  /\ calls' = << [fn |-> "rgbToHSL", r |-> r, g |-> g, b |-> b,
                  out |-> rgbToHSL(r, g, b, <<0, 0, 0>>),
                  outFast |-> rgb2hslFast(r, g, b, <<0, 0, 0>>)] >>
  /\ UNCHANGED <<hoverInfo, pinnedInfo, X, Y, Z, colorPool, colorPoolIndex, edgeLog,
                 nextObject, zCutoffPercent, gradients>>

NextHsl == \E r \in ByteLevels, g \in ByteLevels, b \in ByteLevels : ConvertRgb(r, g, b)

SpecHsl == InitHsl /\ [][NextHsl]_vars

----------------------------------------------------------------------------
(* C30.  rgbToHSL and rgb2hslFast write the same hue, saturation and          *)
(* lightness for every 8-bit triple.  rgbToHSL picks its saturation formula   *)
(* by the largest channel where rgb2hslFast goes by the lightness, so this    *)
(* is stated to be refuted.                                                   *)
C30_ConvertersAgree ==
  (calls # << >> /\ calls[1].fn = "rgbToHSL") => calls[1].out = calls[1].outFast

====
